---------------------------- MODULE Spec2Model ----------------------------
(***************************************************************************)
(* Textra core daemon (src/bin/core.rs) with the synthetic-input helpers   *)
(* of lib.rs (keyboard::send_key / delete_chars / type_text) and the retry *)
(* wrapper of keyboard_api.rs.                                             *)
(*                                                                         *)
(* The low-level keyboard hook runs on the thread that installed it; the   *)
(* whole of AppState::handle_key_event, including perform_replacement and  *)
(* every SendInput call and sleep, runs inside the hook callback on that   *)
(* thread.  Key transitions (hardware ones and the ones injected with      *)
(* SendInput) are held by the OS in its input stream (osQueue) until the   *)
(* hook is called for them.  The hook thread can be entered for an event   *)
(* either while it waits in its message loop (pc = "idle") or while it is  *)
(* inside send_key's SendInput calls (GENERATING_INPUT set).               *)
(*                                                                         *)
(* Strings are sequences of one-character strings.  Time is kept as the    *)
(* number of milliseconds elapsed since an Instant, saturating at TimeCap. *)
(***************************************************************************)
EXTENDS Integers, Sequences, FiniteSets, TLC

VARIABLES
    config,            \* AppState.config: the active rule list
    current_text,      \* AppState.current_text: the rolling buffer
    sinceKey,          \* ms elapsed since AppState.last_key_time
    shift_pressed,
    ctrl_pressed,
    alt_pressed,
    caps_lock_on,
    killswitch,
    last_shift_time,   \* NoTime, or ms elapsed since the remembered Shift press
    overlay_visible,
    GENERATING_INPUT,  \* keyboard::GENERATING_INPUT, the echo gate
    osQueue,           \* key transitions the OS has not yet shown to the hook
    pc,                \* where the hook thread is: "idle", "delete_chars", "type_text"
    rep,               \* the replacement in progress
    failures,          \* SendInput calls that have failed so far
    keysLeft,          \* hardware key transitions still to come
    fired,             \* outcome of find_replacement in the last handled key event
    emitted,           \* synthetic inputs sent for the replacement last started
    lastHook,          \* what the hook did with the last event it was called for
    outcome,           \* how the last replacement ended
    freshLen,          \* trailing buffer characters pushed since the last idle key-down gap
    sinceChar,         \* ms elapsed since the last handled KeyDown(Char)
    charFresh,         \* trailing buffer characters pushed since the last idle gap between characters
    gapSeen,           \* an idle key-down gap has found characters in the buffer
    typedRun,          \* the characters of the last consecutive hardware KeyDown(Char) events
    call,              \* the last direct call of a helper function: arguments and result
    file,              \* what load_config finds in the config file
    raised,            \* reload signals raised so far: file writes and UpdateConfig messages
    lastReload,        \* how the update_config call that returned last ended
    signals,           \* reload signals not yet taken up, per reloading thread
    thr,               \* where each reloading thread is in update_config
    cfgLock,           \* who holds the mutex of AppState::config
    scan,              \* a find_replacement call followed rule by rule
    tpl,               \* the IPC thread inside handle_template_selected
    kbd,               \* the keyboard monitors of keyboard_api: WindowsKeyboard and MockKeyboard
    overlayProc,       \* the overlay process: ConfigReloaded messages on its pipe and its config
    listener,          \* the daemon's IPC listener thread and the connections made to its pipe
    legacy             \* the channel-based dispatcher of keyboard.rs and the focused application

vars == <<config, current_text, sinceKey, shift_pressed, ctrl_pressed, alt_pressed,
          caps_lock_on, killswitch, last_shift_time, overlay_visible,
          GENERATING_INPUT, osQueue, pc, rep, failures, keysLeft, fired,
          emitted, lastHook, outcome, freshLen, sinceChar, charFresh, gapSeen, typedRun,
          call, file, raised, lastReload, signals, thr, cfgLock, scan, tpl, kbd,
          overlayProc, listener, legacy>>

engineVars == <<config, current_text, sinceKey, shift_pressed, ctrl_pressed, alt_pressed,
                caps_lock_on, killswitch, last_shift_time, overlay_visible>>

ghostTime == <<freshLen, sinceChar, charFresh, gapSeen, typedRun>>

\* what the keyboard path never touches
reloadVars == <<file, raised, lastReload, signals, thr, cfgLock, scan>>

\* the processes and threads beside the hook and the reloads
sideVars == <<overlayProc, listener, legacy>>

auxVars == <<call, reloadVars, tpl, kbd, sideVars>>

---------------------------------------------------------------------------
(* Bounds of the model.                                                    *)

MaxQueue == 1
MaxKeys == 3
\* key transitions when only modifier and Escape keys are pressed
MaxModKeys == 4
MaxFailures == 3
\* character keys pressed in a row when the buffer is filled to its capacity
MaxPushKeys == 102
\* longest string passed to a helper function called directly
MaxArgLen == 2
TickMs == 750
\* reload signals while the daemon runs: writes of the config file and
\* UpdateConfig messages
MaxSignals == 2
\* key transitions while the configuration is reloaded
MaxReloadKeys == 2
\* most components of a Version
MaxVersionLen == 2
\* key transitions around the opening of the overlay
MaxOverlayKeys == 4
\* key transitions while a selected template is typed
MaxTplKeys == 3
\* elapsed times saturate after two ticks, beyond both thresholds
TimeCap == 2 * TickMs

(* Program constants.                                                      *)
MAX_TEXT_LENGTH == 100
IDLE_MS == 1000
DOUBLE_SHIFT_MS == 500
MAX_RETRIES == 3
BASE_DELAY == 100

\* Option::None for an Instant and for a match
NoTime == -1
NoMatch == [rule |-> 0]

Min(a, b) == IF a < b THEN a ELSE b
Max(a, b) == IF a > b THEN a ELSE b

---------------------------------------------------------------------------
(* Characters and strings.                                                 *)

Lower == {"b", "t", "w", "y"}

ToUpperChar(c) ==
    CASE c = "b" -> "B"
      [] c = "t" -> "T"
      [] c = "w" -> "W"
      [] c = "y" -> "Y"
      [] c = "é" -> "É"
      [] OTHER -> c

ToLowerChar(c) ==
    CASE c = "B" -> "b"
      [] c = "T" -> "t"
      [] c = "W" -> "w"
      [] c = "Y" -> "y"
      [] c = "É" -> "é"
      [] OTHER -> c

is_uppercase(c) == c \in {"B", "T", "W", "Y", "É"}

\* str::len(): the length in bytes of the UTF-8 encoding.
Utf8Len(c) == IF c \in {"é", "É"} THEN 2 ELSE 1

RECURSIVE StrLen(_)
StrLen(s) == IF s = <<>> THEN 0 ELSE Utf8Len(Head(s)) + StrLen(Tail(s))

\* str::chars().count()
CharCount(s) == Len(s)

\* str::ends_with
EndsWith(text, t) ==
    /\ Len(t) <= Len(text)
    /\ SubSeq(text, Len(text) - Len(t) + 1, Len(text)) = t

\* VecDeque::pop_back repeated n times (a pop on an empty deque does nothing)
PopBackN(buf, n) == SubSeq(buf, 1, Max(Len(buf) - n, 0))

\* a push that drops from the back when the capacity is exceeded
PushCharPopBack(buf, c) ==
    LET b == Append(buf, c)
    IN  IF Len(b) > MAX_TEXT_LENGTH THEN SubSeq(b, 1, Len(b) - 1) ELSE b

\* push_back(c) followed by the pop_front that keeps the capacity
PushChar(buf, c) ==
    LET b == Append(buf, c)
    IN  IF Len(b) > MAX_TEXT_LENGTH THEN Tail(b) ELSE b

---------------------------------------------------------------------------
(* Configurations.                                                         *)

Rule(ts, kind, text) == [triggers |-> ts, kind |-> kind, text |-> text, lang |-> "none"]

\* a rule with Replacement::Code { language, content }
CodeRule(ts, language, content) ==
    [triggers |-> ts, kind |-> "Code", text |-> content, lang |-> language]

CfgBtw == << Rule(<< <<"b", "t", "w">> >>, "Simple", <<"b", "y">>) >>

\* two triggers of the first rule and the trigger of the second rule can end
\* the same text
CfgOrder ==
    << Rule(<< <<"t", "w">>, <<"b", "t", "w">> >>, "Simple", <<"y">>),
       Rule(<< <<"b", "t", "w">> >>, "Simple", <<"b">>) >>

\* a trigger with a two-byte character: 2 characters, 3 bytes
CfgUtf8 == << Rule(<< <<"é", "w">> >>, "Simple", <<"y">>) >>

\* code replacements in a language execute_code knows and in one it does not
CfgCode ==
    << CodeRule(<< <<"t", "t">> >>, "python", <<"y">>),
       CodeRule(<< <<"w", "w">> >>, "cobol", <<"y">>) >>

\* the configs with Simple rules only
TypedConfigs == {CfgBtw, CfgOrder, CfgUtf8}

Configs == TypedConfigs \cup {CfgCode}

---------------------------------------------------------------------------
(* AppState::find_replacement: rules in declaration order, each rule's     *)
(* triggers in list order, return at the first trigger the text ends with. *)

Match(i, j, cfg) ==
    [rule |-> i, trig |-> j, trigger |-> cfg[i].triggers[j], text |-> cfg[i].text]

RECURSIVE ScanTriggers(_, _, _, _)
ScanTriggers(cfg, text, i, j) ==
    IF j > Len(cfg[i].triggers) THEN NoMatch
    ELSE IF EndsWith(text, cfg[i].triggers[j]) THEN Match(i, j, cfg)
    ELSE ScanTriggers(cfg, text, i, j + 1)

RECURSIVE ScanRules(_, _, _)
ScanRules(cfg, text, i) ==
    IF i > Len(cfg) THEN NoMatch
    ELSE LET m == ScanTriggers(cfg, text, i, 1)
         IN  IF m.rule > 0 THEN m ELSE ScanRules(cfg, text, i + 1)

\* a matcher that prefers the longest matching trigger
find_replacement_longest(cfg, text) ==
    LET all == {p \in {<<i, j>> : i \in 1..Len(cfg), j \in 1..MAX_TEXT_LENGTH} :
                  /\ p[2] <= Len(cfg[p[1]].triggers)
                  /\ EndsWith(text, cfg[p[1]].triggers[p[2]])}
        Longer(p, q) == Len(cfg[p[1]].triggers[p[2]]) > Len(cfg[q[1]].triggers[q[2]])
        Before(p, q) == p[1] < q[1] \/ (p[1] = q[1] /\ p[2] < q[2])
    IN  IF all = {} THEN NoMatch
        ELSE LET best == CHOOSE p \in all :
                            \A q \in all \ {p} : Longer(p, q) \/ (~Longer(q, p) /\ Before(p, q))
             IN  Match(best[1], best[2], cfg)

find_replacement(cfg, text) == ScanRules(cfg, text, 1)

---------------------------------------------------------------------------
(* replacement::execute_code and the replacement text find_replacement     *)
(* returns.  The message of an error is one character per kind of failure; *)
(* "e" stands for the prefix "Error executing code: ".                     *)

\* how running the interpreter can end, for a language
ExecOutcomes(language) ==
    IF language \in {"python", "javascript", "rust"}
    THEN {"ok", "nostart", "nonzero"}
    ELSE {"unsupported"}

\* the message of the error execute_code returns
ExecError(how) ==
    CASE how = "nostart"     -> <<"s">>
      [] how = "nonzero"     -> <<"x">>
      [] how = "unsupported" -> <<"u">>
      [] OTHER                   -> <<>>

\* execute_code: Ok(trimmed stdout) or Err(message)
execute_code(language, content, how) ==
    IF how = "ok" THEN [ok |-> TRUE, out |-> content]
    ELSE [ok |-> FALSE, out |-> ExecError(how)]

\* a failed execution that yields an empty replacement
replacement_text_default(rule, how) ==
    IF rule.kind # "Code" THEN rule.text
    ELSE LET r == execute_code(rule.lang, rule.text, how)
         IN  IF r.ok THEN r.out ELSE <<>>

\* find_replacement, lines 204-216: the text of the matched rule
replacement_text(rule, how) ==
    IF rule.kind # "Code" THEN rule.text
    ELSE LET r == execute_code(rule.lang, rule.text, how)
         IN  IF r.ok THEN r.out ELSE <<"e">> \o r.out

---------------------------------------------------------------------------
(* replacement::propagate_case                                             *)

\* a propagate_case that tests `any` where the source tests `all`
propagate_case_any(original, replacement) ==
    IF original = <<>> \/ replacement = <<>> THEN replacement
    ELSE IF \E k \in 1..Len(original) : is_uppercase(original[k])
         THEN [k \in 1..Len(replacement) |-> ToUpperChar(replacement[k])]
    ELSE replacement

propagate_case(original, replacement) ==
    IF original = <<>> \/ replacement = <<>> THEN replacement
    ELSE IF \A k \in 1..Len(original) : is_uppercase(original[k])
         THEN [k \in 1..Len(replacement) |-> ToUpperChar(replacement[k])]
    ELSE IF is_uppercase(original[1])
         THEN <<ToUpperChar(replacement[1])>> \o Tail(replacement)
    ELSE replacement

\* perform_replacement, lines 233-237.  No configured text contains "{{",
\* so the process_dynamic_replacement branch is never taken.
final_replacement(trigger, replacement) == propagate_case(trigger, replacement)

---------------------------------------------------------------------------
(* Synthetic input: keyboard::send_key, type_text, delete_chars.           *)

\* get_virtual_key_code: the key that carries the character
get_virtual_key_code(c) == ToLowerChar(c)

\* get_modifiers_for_char: the shift state VkKeyScanW reports
get_modifiers_for_char(c) == IF is_uppercase(c) THEN <<"VK_SHIFT">> ELSE <<>>

Reverse(s) == [k \in 1..Len(s) |-> s[Len(s) + 1 - k]]

Input(dir, vk) == [dir |-> dir, vk |-> vk, synthetic |-> TRUE]

\* send_key: modifiers down, key down, key up, modifiers up in reverse order
SendKeyInputs(key) ==
    [k \in 1..Len(key.mods) |-> Input("down", key.mods[k])]
    \o << Input("down", key.vk), Input("up", key.vk) >>
    \o [k \in 1..Len(key.mods) |-> Input("up", Reverse(key.mods)[k])]

\* delete_chars(count): count times send_key(VK_BACK, [])
DeleteKeys(count) == [k \in 1..count |-> [vk |-> "VK_BACK", mods |-> <<>>]]

\* type_text: one send_key per character (every character of the model has a key)
TypeKeys(text) ==
    [k \in 1..Len(text) |->
        [vk |-> get_virtual_key_code(text[k]), mods |-> get_modifiers_for_char(text[k])]]

\* key_code_from_windows: the hook passes a zeroed keyboard state to
\* ToUnicodeEx, so a character key always yields its unshifted character.
key_code_from_windows(vk) ==
    CASE vk = "VK_SHIFT"   -> "Shift"
      [] vk = "VK_CONTROL" -> "Control"
      [] vk = "VK_MENU"    -> "Alt"
      [] vk = "VK_ESCAPE"  -> "Escape"
      [] vk = "VK_BACK"    -> "Backspace"
      [] vk = "VK_CAPITAL" -> "CapsLock"
      [] OTHER             -> "Char"

\* a hook that does not look at the gate
HookForwardsIgnoresGate(generating) == TRUE

\* the hook's gate: `code >= 0 && !keyboard::is_generating_input()`
HookForwards(generating) == ~generating

---------------------------------------------------------------------------
(* State after AppState::new and before the first key event.               *)

NoRep == [trigger |-> <<>>, text |-> <<>>, matchBuf |-> <<>>,
          attempts |-> 0, i |-> 0, k |-> 0]

NoEmitted == [n |-> 0, bsDown |-> 0, bsUp |-> 0, typed |-> 0]

NoCall == [fn |-> "none"]

\* the threads that call update_config: the config watcher thread and the
\* thread of the IPC listener
Threads == {"watcher", "ipc"}

GoodFile(cfg) == [ok |-> TRUE, cfg |-> cfg]

\* a file that cannot be read or does not parse
BadFile == [ok |-> FALSE, cfg |-> <<>>]

IdleThread == [pc |-> "idle", cfg |-> <<>>, same |-> FALSE]

NoScan == [pc |-> "idle"]

NoTpl == [pc |-> "idle", text |-> <<>>, attempts |-> 0, i |-> 0, k |-> 0, res |-> "none"]

\* res: how the call ended; same: it stored the rule set already in force
\* WindowsKeyboard::new and MockKeyboard::new; failed and failedRunning count
\* the operations of a monitor that returned Err, and those that did so while
\* it was running; last is the operation that returned last
NoKbd ==
    [win |-> [hook |-> FALSE, running |-> FALSE, error_count |-> 0],
     mock |-> [running |-> FALSE, fail_next |-> FALSE, error_count |-> 0,
               consecutive_failures |-> 0],
     failed |-> [win |-> 0, mock |-> 0],
     failedRunning |-> [win |-> 0, mock |-> 0],
     ops |-> 0,
     last |-> [who |-> "none", op |-> "none", ok |-> TRUE, health |-> "none"]]

NoReload == [res |-> "none", same |-> FALSE]

\* the overlay as it starts: nothing on its pipe, no ConfigReloaded applied
\* yet (config counts from the first one applied), no send to it failed
NoOverlay == [inbox |-> <<>>, config |-> <<>>, applied |-> FALSE, lost |-> FALSE]

\* the daemon's listener after ipc::listen: waiting in accept, no connection
\* made yet, nothing given to the callback
NoListener == [conns |-> <<>>, accepted |-> 0, pos |-> 0, pc |-> "accept", calls |-> <<>>]

\* the channel-based dispatcher after main_loop is entered: nothing typed
NoLegacy == [chan |-> <<>>, screen |-> <<>>, buf |-> <<>>, typed |-> 0,
             fired |-> FALSE, trigger |-> <<>>, deleted |-> <<>>]

AppStateNew ==
    /\ config \in Configs
    /\ current_text = <<>>
    /\ sinceKey = 0
    /\ shift_pressed = FALSE
    /\ ctrl_pressed = FALSE
    /\ alt_pressed = FALSE
    /\ caps_lock_on = FALSE
    /\ killswitch = FALSE
    /\ last_shift_time = NoTime
    /\ overlay_visible = FALSE
    /\ GENERATING_INPUT = FALSE
    /\ osQueue = <<>>
    /\ pc = "idle"
    /\ rep = NoRep
    /\ failures = 0
    /\ fired = NoMatch
    /\ emitted = NoEmitted
    /\ lastHook = [res |-> "none", synthetic |-> FALSE, escUp |-> FALSE, pushed |-> FALSE,
                   gesture |-> FALSE, shown |-> FALSE, ctrlV |-> FALSE]
    /\ outcome = "none"
    /\ freshLen = 0
    /\ sinceChar = 0
    /\ charFresh = 0
    /\ gapSeen = FALSE
    /\ typedRun = <<>>
    /\ call = NoCall
    /\ file = GoodFile(config)
    /\ raised = 0
    /\ lastReload = NoReload
    /\ signals = [t \in Threads |-> 0]
    /\ thr = [t \in Threads |-> IdleThread]
    /\ cfgLock = "free"
    /\ scan = NoScan
    /\ tpl = NoTpl
    /\ kbd = NoKbd
    /\ overlayProc = NoOverlay
    /\ listener = NoListener
    /\ legacy = NoLegacy

Init ==
    /\ AppStateNew
    /\ config \in TypedConfigs
    /\ keysLeft = MaxKeys

---------------------------------------------------------------------------
(* The environment: hardware key transitions and the passing of time.      *)

Elapse(t) == IF t = NoTime THEN NoTime ELSE Min(t + TickMs, TimeCap)

Tick ==
    /\ \/ sinceKey < TimeCap
       \/ sinceChar < TimeCap
       \/ last_shift_time # NoTime /\ last_shift_time < TimeCap
    /\ sinceKey' = Elapse(sinceKey)
    /\ sinceChar' = Elapse(sinceChar)
    /\ last_shift_time' = Elapse(last_shift_time)
    /\ UNCHANGED <<config, current_text, shift_pressed, ctrl_pressed, alt_pressed,
                   caps_lock_on, killswitch, overlay_visible, GENERATING_INPUT,
                   osQueue, pc, rep, failures, keysLeft, fired, emitted, lastHook,
                   outcome, freshLen, charFresh, gapSeen, typedRun>>
    /\ UNCHANGED auxVars

---------------------------------------------------------------------------
(* keyboard_hook_proc and AppState::handle_key_event.                      *)

\* a handler without the idle reset
IdleResetNever(buf, since) == buf

\* handle_key_event, lines 96-98: a key-down more than 1000 ms after the
\* previous key-down clears the buffer
IdleReset(buf, since) == IF since > IDLE_MS THEN <<>> ELSE buf

\* popping one character per character of the trigger
AfterReplacementByChars(buf, trigger) == PopBackN(buf, CharCount(trigger))

\* handle_key_event, lines 165-168: `for _ in 0..trigger.len() { pop_back }`
AfterReplacement(buf, trigger) == PopBackN(buf, StrLen(trigger))

\* a perform_replacement without the killswitch check
KillswitchNeverSkips(ks) == FALSE

\* perform_replacement, lines 239-242: the killswitch returns Ok before any synthesis
KillswitchSkips(ks) == ks

\* the hook thread can be entered: from its message loop, or from inside a
\* SendInput call of send_key
HookCanRun == pc = "idle" \/ GENERATING_INPUT

\* a thread that asks for a lock another holder was given waits
ConfigLockIgnored(lock) == TRUE

\* self.config.lock(): the mutex is handed to one holder at a time
ConfigLockFree(lock) == lock = "free"

\* the gate is set: the event is passed to the next hook and nothing else happens
HookDiscard(ev) ==
    /\ lastHook' = [res |-> "discarded", synthetic |-> ev.synthetic, escUp |-> FALSE,
                    pushed |-> FALSE, gesture |-> FALSE, shown |-> FALSE,
                    ctrlV |-> FALSE]
    /\ UNCHANGED <<engineVars, GENERATING_INPUT, pc, rep, failures,
                   fired, emitted, outcome, ghostTime>>

\* KeyEvent::KeyUp(code)
HandleKeyUp(ev, ipcOk) ==
    LET code == key_code_from_windows(ev.vk)
        hideFails == code = "Escape" /\ overlay_visible /\ ~ipcOk
    IN  /\ shift_pressed' = IF code = "Shift" THEN FALSE ELSE shift_pressed
        /\ ctrl_pressed' = IF code = "Control" THEN FALSE ELSE ctrl_pressed
        /\ alt_pressed' = IF code = "Alt" THEN FALSE ELSE alt_pressed
        /\ overlay_visible' =
              IF code = "Escape" /\ overlay_visible /\ ipcOk THEN FALSE ELSE overlay_visible
        /\ killswitch' = IF code = "Escape" /\ ~hideFails THEN FALSE ELSE killswitch
        /\ UNCHANGED <<config, current_text, sinceKey, caps_lock_on, last_shift_time,
                       GENERATING_INPUT, pc, rep, failures, fired, outcome, emitted,
                       ghostTime>>

\* a handler that pushes the character whether or not the overlay is visible
PushesCharUnderOverlay(ev) ==
    /\ ev.dir = "down"
    /\ key_code_from_windows(ev.vk) = "Char"
    /\ ~(ctrl_pressed /\ ev.vk \in {"v", "V"})

\* a handler that pushes the character of Ctrl+V like any other
PushesCharOnPaste(ev) ==
    /\ ev.dir = "down"
    /\ key_code_from_windows(ev.vk) = "Char"
    /\ ~overlay_visible

\* KeyDown(Char(c)), lines 137-148: the character is pushed onto the buffer
\* unless the overlay is visible or the key is Ctrl+V
PushesChar(ev) ==
    /\ ev.dir = "down"
    /\ key_code_from_windows(ev.vk) = "Char"
    /\ ~overlay_visible
    /\ ~(ctrl_pressed /\ ev.vk \in {"v", "V"})

LastChars(str, n) == SubSeq(str, Max(Len(str) - n, 0) + 1, Len(str))

\* KeyEvent::KeyDown(code)
HandleKeyDown(ev, ipcOk, ex) ==
    LET code == key_code_from_windows(ev.vk)
        c == ev.vk
        buf0 == IdleReset(current_text, sinceKey)
        isChar == code = "Char"
        paste == isChar /\ ~overlay_visible /\ ctrl_pressed /\ c \in {"v", "V"}
        pushes == PushesChar(ev)
        pops == code = "Backspace" /\ ~overlay_visible
        buf1 == IF pushes THEN PushChar(buf0, c) ELSE buf0
        m0 == IF pushes THEN find_replacement(config, buf1) ELSE NoMatch
        m == IF m0.rule > 0
             THEN [m0 EXCEPT !.text = replacement_text(config[m0.rule], ex)]
             ELSE m0
        skipped == m.rule > 0 /\ KillswitchSkips(killswitch)
        starts == m.rule > 0 /\ ~KillswitchSkips(killswitch)
        within == last_shift_time # NoTime /\ last_shift_time < DOUBLE_SHIFT_MS
        showFails == code = "Shift" /\ within /\ ~overlay_visible /\ ~ipcOk
        \* provenance of the buffer's characters
        f0 == IF sinceKey > IDLE_MS THEN 0 ELSE freshLen
        c0 == IF isChar /\ sinceChar > IDLE_MS THEN 0 ELSE charFresh
        f1 == IF pushes THEN f0 + 1 ELSE IF pops THEN Max(f0 - 1, 0) ELSE f0
        c1 == IF pushes THEN c0 + 1 ELSE IF pops THEN Max(c0 - 1, 0) ELSE c0
        f2 == IF skipped THEN Max(f1 - StrLen(m.trigger), 0) ELSE f1
        c2 == IF skipped THEN Max(c1 - StrLen(m.trigger), 0) ELSE c1
    IN  /\ sinceKey' = 0
        /\ current_text' =
              IF pops THEN PopBackN(buf0, 1)
              ELSE IF paste THEN <<>>
              ELSE IF skipped THEN AfterReplacement(buf1, m.trigger)
              ELSE buf1
        /\ killswitch' = IF code = "Escape" THEN TRUE ELSE killswitch
        /\ shift_pressed' = IF code = "Shift" THEN TRUE ELSE shift_pressed
        /\ ctrl_pressed' = IF code = "Control" THEN TRUE ELSE ctrl_pressed
        /\ alt_pressed' = IF code = "Alt" THEN TRUE ELSE alt_pressed
        /\ caps_lock_on' = IF code = "CapsLock" THEN ~caps_lock_on ELSE caps_lock_on
        /\ overlay_visible' =
              IF code = "Shift" /\ within /\ ~overlay_visible /\ ipcOk
              THEN TRUE ELSE overlay_visible
        /\ last_shift_time' =
              IF code # "Shift" THEN last_shift_time
              ELSE IF showFails THEN last_shift_time
              ELSE IF within THEN NoTime
              ELSE 0
        /\ pc' = IF starts THEN "delete_chars" ELSE pc
        /\ rep' = IF starts
                  THEN [trigger |-> m.trigger,
                        text |-> final_replacement(m.trigger, m.text),
                        matchBuf |-> buf1, attempts |-> 0, i |-> 0, k |-> 0]
                  ELSE rep
        /\ fired' = IF ~pushes THEN NoMatch
                    ELSE IF m.rule = 0 THEN [rule |-> 0, buf |-> buf1]
                    ELSE [rule |-> m.rule, trig |-> m.trig, trigger |-> m.trigger,
                          text |-> final_replacement(m.trigger, m.text), exec |-> ex,
                          buf |-> buf1, killed |-> killswitch,
                          fresh |-> Min(f1, Len(buf1)), charFresh |-> Min(c1, Len(buf1))]
        /\ emitted' = IF m.rule = 0 THEN emitted
                      ELSE [NoEmitted EXCEPT !.n = CharCount(m.trigger)]
        /\ outcome' = IF skipped THEN "killed" ELSE "none"
        /\ freshLen' = Min(f2, Len(current_text'))
        /\ charFresh' = Min(c2, Len(current_text'))
        /\ sinceChar' = IF isChar THEN 0 ELSE sinceChar
        /\ gapSeen' = (gapSeen \/ (sinceKey > IDLE_MS /\ current_text # <<>>))
        /\ typedRun' =
              IF pushes /\ ~ev.synthetic /\ ~killswitch
              THEN IF sinceKey > IDLE_MS THEN <<c>> ELSE LastChars(Append(typedRun, c), 3)
              ELSE <<>>
        /\ UNCHANGED <<config, GENERATING_INPUT, failures>>

\* the ways execute_code can end when the event completes the trigger of a
\* Code rule
CodeOutcomes(ev) ==
    IF \A i \in 1..Len(config) : config[i].kind # "Code" THEN {"none"}
    ELSE LET m == IF PushesChar(ev)
                  THEN find_replacement(config,
                                        PushChar(IdleReset(current_text, sinceKey), ev.vk))
                  ELSE NoMatch
         IN  IF m.rule > 0 /\ config[m.rule].kind = "Code"
             THEN ExecOutcomes(config[m.rule].lang)
             ELSE {"none"}

\* whether handling the event sends an IPC message to the overlay
SendsIpc(ev) ==
    LET code == key_code_from_windows(ev.vk)
    IN  \/ /\ ev.dir = "down" /\ code = "Shift" /\ ~overlay_visible
           /\ last_shift_time # NoTime /\ last_shift_time < DOUBLE_SHIFT_MS
        \/ ev.dir = "up" /\ code = "Escape" /\ overlay_visible

\* keyboard_hook_proc called for one key transition
Hook(ev) ==
    IF ~HookForwards(GENERATING_INPUT)
    THEN HookDiscard(ev)
    ELSE /\ PushesChar(ev) => ConfigLockFree(cfgLock)
         /\ \E ipcOk \in (IF SendsIpc(ev) THEN BOOLEAN ELSE {TRUE}) :
               /\ lastHook' = [res |-> "handled", synthetic |-> ev.synthetic,
                                escUp |-> (ev.dir = "up" /\ ev.vk = "VK_ESCAPE"),
                                pushed |-> PushesChar(ev),
                                gesture |-> (ev.dir = "down" /\ SendsIpc(ev)),
                                shown |-> (ev.dir = "down" /\ SendsIpc(ev) /\ ipcOk),
                                ctrlV |-> (ev.dir = "down" /\ ev.vk \in {"v", "V"}
                                           /\ ctrl_pressed /\ ~overlay_visible)]
               /\ IF ev.dir = "down"
                  THEN \E ex \in CodeOutcomes(ev) : HandleKeyDown(ev, ipcOk, ex)
                  ELSE HandleKeyUp(ev, ipcOk)

\* the hook is called for the oldest transition still held in the input stream
HookProc ==
    /\ osQueue # <<>>
    /\ HookCanRun
    /\ osQueue' = Tail(osQueue)
    /\ Hook(Head(osQueue))
    /\ UNCHANGED keysLeft
    /\ UNCHANGED auxVars

\* Hardware key transitions while text is typed: the character keys, and the
\* keys whose handling reads or changes the buffer, the killswitch or the
\* overlay.
UserEvents ==
    {[dir |-> "down", vk |-> vk, synthetic |-> FALSE] :
        vk \in {"b", "t", "w", "é", "VK_SHIFT", "VK_ESCAPE", "VK_BACK"}}
    \cup
    {[dir |-> "up", vk |-> vk, synthetic |-> FALSE] : vk \in {"VK_ESCAPE"}}

\* Transitions of the modifier keys and of Escape, and the key-downs of the
\* paste gesture: a character that completes no trigger, and "v" and "V".
\* The key-up of any other key takes the `_ => {}` arm; "b" stands for them.
ModEvents ==
    {[dir |-> "down", vk |-> vk, synthetic |-> FALSE] :
        vk \in {"VK_SHIFT", "VK_CONTROL", "VK_MENU", "VK_ESCAPE", "VK_CAPITAL",
                "t", "v", "V"}}
    \cup
    {[dir |-> "up", vk |-> vk, synthetic |-> FALSE] :
        vk \in {"b", "VK_SHIFT", "VK_CONTROL", "VK_MENU", "VK_ESCAPE"}}

\* a key transition while the hook thread waits in its message loop and the
\* input stream is empty: the hook is called for it at once
UserKey ==
    /\ keysLeft > 0
    /\ pc = "idle"
    /\ osQueue = <<>>
    /\ \E ev \in UserEvents : Hook(ev)
    /\ keysLeft' = keysLeft - 1
    /\ osQueue' = osQueue
    /\ UNCHANGED auxVars

\* the same for a transition of a modifier key or of Escape
UserModKey ==
    /\ keysLeft > 0
    /\ pc = "idle"
    /\ osQueue = <<>>
    /\ \E ev \in ModEvents : Hook(ev)
    /\ keysLeft' = keysLeft - 1
    /\ osQueue' = osQueue
    /\ UNCHANGED auxVars

\* Key-downs that complete the triggers of CfgCode, and the killswitch key
CodeEvents ==
    {[dir |-> "down", vk |-> vk, synthetic |-> FALSE] : vk \in {"t", "w", "VK_ESCAPE"}}

UserCodeKey ==
    /\ keysLeft > 0
    /\ pc = "idle"
    /\ osQueue = <<>>
    /\ \E ev \in CodeEvents : Hook(ev)
    /\ keysLeft' = keysLeft - 1
    /\ osQueue' = osQueue
    /\ UNCHANGED auxVars

\* Key-downs while the configuration is reloaded: a character that completes
\* no trigger, the killswitch key and the key of the overlay gesture
ReloadEvents ==
    {[dir |-> "down", vk |-> vk, synthetic |-> FALSE] : vk \in {"b", "VK_ESCAPE", "VK_SHIFT"}}

UserReloadKey ==
    /\ keysLeft > 0
    /\ pc = "idle"
    /\ osQueue = <<>>
    /\ \E ev \in ReloadEvents : Hook(ev)
    /\ keysLeft' = keysLeft - 1
    /\ osQueue' = osQueue
    /\ UNCHANGED auxVars

\* Key-downs of character keys that complete no trigger: "b" repeated, with
\* at most one "t" in the buffer at a time.
FillEvents ==
    {[dir |-> "down", vk |-> vk, synthetic |-> FALSE] : vk \in {"b", "t"}}

UserFillKey ==
    /\ keysLeft > 0
    /\ pc = "idle"
    /\ osQueue = <<>>
    /\ \E ev \in FillEvents :
          /\ ev.vk = "t" => \A k \in 1..Len(current_text) : current_text[k] # "t"
          /\ Hook(ev)
    /\ keysLeft' = keysLeft - 1
    /\ osQueue' = osQueue
    /\ UNCHANGED auxVars

\* a key transition while the hook thread is busy or older transitions are
\* still waiting: it joins the input stream
UserKeyQueued ==
    /\ keysLeft > 0
    /\ pc # "idle" \/ osQueue # <<>>
    /\ Len(osQueue) < MaxQueue
    /\ \E ev \in UserEvents : osQueue' = Append(osQueue, ev)
    /\ keysLeft' = keysLeft - 1
    /\ UNCHANGED <<engineVars, GENERATING_INPUT, pc, rep, failures, fired, emitted,
                   lastHook, outcome, ghostTime>>
    /\ UNCHANGED auxVars

---------------------------------------------------------------------------
(* perform_replacement after the killswitch check:                         *)
(*   keyboard_api.delete_chars(trigger.chars().count(), KEY_DELAY)?        *)
(*   keyboard_api.type_text(&final_replacement, modifiers, KEY_DELAY)?     *)
(* Each is WindowsKeyboard::retry_with_backoff around the lib.rs helper,   *)
(* which calls send_key once per key.  rep.attempts counts the failed      *)
(* attempts of the current operation, rep.i the keys send_key has finished *)
(* in the current attempt, rep.k the inputs sent in the current send_key.  *)

CurrentKeys ==
    IF pc = "delete_chars" THEN DeleteKeys(CharCount(rep.trigger))
    ELSE TypeKeys(rep.text)

CurrentInputs == SendKeyInputs(CurrentKeys[rep.i + 1])

InSendKey ==
    /\ pc \in {"delete_chars", "type_text"}
    /\ rep.i < Len(CurrentKeys)

Count(inp) ==
    IF inp.vk = "VK_BACK" /\ inp.dir = "down" THEN [emitted EXCEPT !.bsDown = @ + 1]
    ELSE IF inp.vk = "VK_BACK" /\ inp.dir = "up" THEN [emitted EXCEPT !.bsUp = @ + 1]
    ELSE [emitted EXCEPT !.typed = @ + 1]

\* a handler whose thread ends with the error
HandlerStopsOnError(p) == "stopped"

\* keyboard_handler, core.rs 526-528: the error of handle_key_event is logged
\* and the callback returns to the hook
HandlerAfterError(p) == "idle"

\* a send_key that leaves the gate as it is when SendInput fails
GateLeftOnError(gate) == gate

\* send_key, line 702: set_generating_input(false) before the error is returned
GateOnError(gate) == FALSE

\* a send_key that returns Ok without touching the gate
GateLeftOnReturn(gate) == gate

\* send_key, line 712: set_generating_input(false) before Ok is returned
GateOnReturn(gate) == FALSE

\* send_key: set_generating_input(true) on entry; SendInput succeeds for the next input
SendInputOk ==
    /\ InSendKey
    /\ rep.k < Len(CurrentInputs)
    /\ Len(osQueue) < MaxQueue
    /\ GENERATING_INPUT' = TRUE
    /\ osQueue' = Append(osQueue, CurrentInputs[rep.k + 1])
    /\ rep' = [rep EXCEPT !.k = @ + 1]
    /\ emitted' = Count(CurrentInputs[rep.k + 1])
    /\ UNCHANGED <<engineVars, pc, failures, keysLeft, fired, lastHook, outcome, ghostTime>>
    /\ UNCHANGED auxVars

\* retry_with_backoff: whether another attempt follows `failed` failed attempts
RetryAgain(failed) == failed < MAX_RETRIES

\* send_key: SendInput returns 0; the gate is reset and the error returned.
\* retry_with_backoff runs the whole operation again, or gives up after
\* MAX_RETRIES attempts; the `?` in perform_replacement and in
\* handle_key_event then return before the buffer is touched.
SendInputFail ==
    /\ InSendKey
    /\ rep.k < Len(CurrentInputs)
    /\ failures < MaxFailures
    /\ failures' = failures + 1
    /\ GENERATING_INPUT' = GateOnError(GENERATING_INPUT)
    /\ IF RetryAgain(rep.attempts + 1)
       THEN /\ rep' = [rep EXCEPT !.attempts = @ + 1, !.i = 0, !.k = 0]
            /\ UNCHANGED <<pc, outcome>>
       ELSE /\ pc' = HandlerAfterError(pc)
            /\ rep' = NoRep
            /\ outcome' = "err"
    /\ UNCHANGED <<engineVars, osQueue, keysLeft, fired, emitted, lastHook, ghostTime>>
    /\ UNCHANGED auxVars

\* send_key: every input is sent; set_generating_input(false) and return Ok.
\* After the last key of delete_chars comes type_text; after the last key of
\* type_text perform_replacement returns Ok and handle_key_event pops the
\* trigger from the buffer.
SendKeyEnd ==
    /\ InSendKey
    /\ rep.k = Len(CurrentInputs)
    /\ GENERATING_INPUT' = GateOnReturn(GENERATING_INPUT)
    /\ IF rep.i + 1 < Len(CurrentKeys)
       THEN /\ rep' = [rep EXCEPT !.i = @ + 1, !.k = 0]
            /\ UNCHANGED <<pc, current_text, outcome, freshLen, charFresh>>
       ELSE IF pc = "delete_chars" /\ TypeKeys(rep.text) # <<>>
       THEN /\ pc' = "type_text"
            /\ rep' = [rep EXCEPT !.attempts = 0, !.i = 0, !.k = 0]
            /\ UNCHANGED <<current_text, outcome, freshLen, charFresh>>
       ELSE /\ pc' = "idle"
            /\ rep' = NoRep
            /\ current_text' = AfterReplacement(current_text, rep.trigger)
            /\ outcome' = "ok"
            /\ freshLen' = Min(Max(freshLen - StrLen(rep.trigger), 0), Len(current_text'))
            /\ charFresh' = Min(Max(charFresh - StrLen(rep.trigger), 0), Len(current_text'))
    /\ UNCHANGED <<config, sinceKey, shift_pressed, ctrl_pressed, alt_pressed,
                   caps_lock_on, killswitch, last_shift_time, overlay_visible,
                   osQueue, failures, keysLeft, fired, emitted, lastHook, sinceChar,
                   gapSeen, typedRun>>
    /\ UNCHANGED auxVars

---------------------------------------------------------------------------

Next ==
    \/ UserKey
    \/ UserKeyQueued
    \/ Tick
    \/ HookProc
    \/ SendInputOk
    \/ SendInputFail
    \/ SendKeyEnd

Spec == Init /\ [][Next]_vars

\* The engine with Code rules: the keys of their triggers are typed while
\* the hook thread is idle, and every execution can end in each of its ways.
InitCode ==
    /\ AppStateNew
    /\ config = CfgCode
    /\ keysLeft = MaxKeys

NextCode ==
    \/ UserCodeKey
    \/ HookProc
    \/ SendInputOk
    \/ SendInputFail
    \/ SendKeyEnd

SpecCode == InitCode /\ [][NextCode]_vars

\* The engine around the opening of the overlay: the keys of the trigger
\* "tw", Backspace, and Shift, whose double press shows the overlay.
OverlayEvents ==
    {[dir |-> "down", vk |-> vk, synthetic |-> FALSE] :
        vk \in {"t", "w", "VK_SHIFT", "VK_BACK"}}

UserOverlayKey ==
    /\ keysLeft > 0
    /\ pc = "idle"
    /\ osQueue = <<>>
    /\ \E ev \in OverlayEvents : Hook(ev)
    /\ keysLeft' = keysLeft - 1
    /\ osQueue' = osQueue
    /\ UNCHANGED auxVars

InitOverlay ==
    /\ AppStateNew
    /\ config = CfgOrder
    /\ keysLeft = MaxOverlayKeys

NextOverlay ==
    \/ UserOverlayKey
    \/ Tick
    \/ HookProc
    \/ SendInputOk
    \/ SendInputFail
    \/ SendKeyEnd

SpecOverlay == InitOverlay /\ [][NextOverlay]_vars

\* The engine when only modifier keys and Escape are used: no character is
\* typed, so no replacement starts.
InitMod ==
    /\ AppStateNew
    /\ keysLeft = MaxModKeys

NextMod ==
    \/ UserModKey
    \/ Tick

SpecMod == InitMod /\ [][NextMod]_vars

\* The helper functions called directly, as the unit tests of lib.rs call
\* them, on every pair of short strings over letters of both cases and a
\* digit.  One call is made in a behaviour.
ArgChars == {"t", "T", "y", "1"}

ArgStrings == UNION {[1..n -> ArgChars] : n \in 0..MaxArgLen}

CallPropagateCase ==
    /\ call = NoCall
    /\ \E original \in ArgStrings, replacement \in ArgStrings :
          call' = [fn |-> "propagate_case", original |-> original,
                   replacement |-> replacement,
                   result |-> propagate_case(original, replacement)]
    /\ UNCHANGED <<engineVars, GENERATING_INPUT, osQueue, pc, rep, failures, keysLeft,
                   fired, emitted, lastHook, outcome, ghostTime, reloadVars, tpl, kbd, sideVars>>

\* find_replacement on a text that ends with the only trigger of a one-rule
\* config, then the text perform_replacement hands to type_text
CallPerformReplacement ==
    /\ call = NoCall
    /\ \E kind \in {"Simple", "Multiline"}, trigger \in ArgStrings \ {<<>>},
          text \in ArgStrings :
          LET m == find_replacement(<< Rule(<<trigger>>, kind, text) >>, trigger)
          IN  call' = [fn |-> "perform_replacement", kind |-> kind,
                       trigger |-> m.trigger, text |-> m.text,
                       result |-> final_replacement(m.trigger, m.text)]
    /\ UNCHANGED <<engineVars, GENERATING_INPUT, osQueue, pc, rep, failures, keysLeft,
                   fired, emitted, lastHook, outcome, ghostTime, reloadVars, tpl, kbd, sideVars>>

RECURSIVE Pow2(_)
Pow2(n) == IF n = 0 THEN 1 ELSE 2 * Pow2(n - 1)

\* a backoff that waits the same time before every attempt
BackoffDelayFixed(attempts) == BASE_DELAY

\* retry_with_backoff, line 151: BASE_DELAY * 2^(attempts - 1) milliseconds
BackoffDelay(attempts) == BASE_DELAY * Pow2(attempts - 1)

\* what the operation returns in its first, second, ... call: TRUE for Ok
OpOutcomes == [1..(MAX_RETRIES + 1) -> BOOLEAN]

\* the loop of retry_with_backoff after `calls` calls of the operation, of
\* which `attempts` failed, and the sleeps made so far
RECURSIVE RetryLoop(_, _, _, _)
RetryLoop(outs, attempts, calls, sleeps) ==
    IF ~RetryAgain(attempts)
    THEN [ok |-> FALSE, err |-> "RetryTimeout", attempts |-> attempts,
          calls |-> calls, sleeps |-> sleeps]
    ELSE IF outs[calls + 1]
    THEN [ok |-> TRUE, err |-> "none", attempts |-> attempts,
          calls |-> calls + 1, sleeps |-> sleeps]
    ELSE RetryLoop(outs, attempts + 1, calls + 1,
                   IF RetryAgain(attempts + 1)
                   THEN Append(sleeps, BackoffDelay(attempts + 1))
                   ELSE sleeps)

retry_with_backoff(outs) == RetryLoop(outs, 0, 0, <<>>)

CallRetryWithBackoff ==
    /\ call = NoCall
    /\ \E outs \in OpOutcomes :
          call' = [fn |-> "retry_with_backoff", outs |-> outs,
                   result |-> retry_with_backoff(outs)]
    /\ UNCHANGED <<engineVars, GENERATING_INPUT, osQueue, pc, rep, failures, keysLeft,
                   fired, emitted, lastHook, outcome, ghostTime, reloadVars, tpl, kbd, sideVars>>

\* components of versions: small and large, one and two digits
VersionParts == {0, 2, 10}

\* Version.parts of the versions compared
Versions == UNION {[1..n -> VersionParts] : n \in 1..MaxVersionLen}

\* self.parts.get(i).copied().unwrap_or(0), with i counted from 1
PartOrZero(parts, i) == IF i <= Len(parts) THEN parts[i] ELSE 0

\* Ord::cmp for Version: the loop over 0..max_len from index i on
RECURSIVE VersionCmpFrom(_, _, _)
VersionCmpFrom(a, b, i) ==
    IF i > Max(Len(a), Len(b)) THEN "Equal"
    ELSE IF PartOrZero(a, i) < PartOrZero(b, i) THEN "Less"
    ELSE IF PartOrZero(a, i) > PartOrZero(b, i) THEN "Greater"
    ELSE VersionCmpFrom(a, b, i + 1)

version_cmp(a, b) == VersionCmpFrom(a, b, 1)

\* #[derive(PartialEq)] on Version: the == of Vec<u32>, same length and
\* same components
version_eq(a, b) == Len(a) = Len(b) /\ \A i \in 1..Len(a) : a[i] = b[i]

CallVersionCompare ==
    /\ call = NoCall
    /\ \E a \in Versions, b \in Versions :
          call' = [fn |-> "version_cmp", a |-> a, b |-> b,
                   cmp |-> version_cmp(a, b), eq |-> version_eq(a, b)]
    /\ UNCHANGED <<engineVars, GENERATING_INPUT, osQueue, pc, rep, failures, keysLeft,
                   fired, emitted, lastHook, outcome, ghostTime, reloadVars, tpl, kbd, sideVars>>

\* serialize_textra_config and parse_textra_config over texts that are
\* sequences of characters; the markers of the grammar ("///", "//", " | ",
\* " => ", the back tick and the fence of three back ticks) are one element
\* each.
MaxRules == 1

BackTick == "<tick>"

Fence == "<fence>"

None == <<"None">>

RECURSIVE JoinWith(_, _)
\* triggers.join(sep)
JoinWith(ss, sep) ==
    IF ss = <<>> THEN <<>>
    ELSE IF Len(ss) = 1 THEN ss[1]
    ELSE ss[1] \o <<sep>> \o JoinWith(Tail(ss), sep)

\* the replacement_str of serialize_textra_config; the Code arm puts a new
\* line between the content and the closing fence
serialize_replacement(r) ==
    CASE r.kind = "Simple" -> r.text
      [] r.kind = "Multiline" -> <<BackTick>> \o r.text \o <<BackTick>>
      [] r.kind = "Code" -> <<Fence>> \o r.language \o <<"\n">> \o r.content \o <<"\n", Fence>>

serialize_rule(rule) ==
    (IF rule.description # None THEN <<"//", " ">> \o rule.description \o <<"\n">> ELSE <<>>)
    \o (IF rule.category # None
        THEN <<"//", " ", "Category", ":", " ">> \o rule.category \o <<"\n">> ELSE <<>>)
    \o JoinWith(rule.triggers, " | ") \o <<" => ">>
    \o serialize_replacement(rule.replacement) \o <<"\n", "\n">>

\* the three loops of serialize_textra_config, from item i on: the metadata
\* lines, the documentation lines, the rules
RECURSIVE SerializeFrom(_, _, _)
SerializeFrom(c, part, i) ==
    LET items == IF part = "metadata" THEN c.metadata
                 ELSE IF part = "documentation" THEN c.documentation ELSE c.rules
    IN
    IF i > Len(items)
    THEN IF part = "metadata" THEN SerializeFrom(c, "documentation", 1)
         ELSE IF part = "documentation" THEN SerializeFrom(c, "rules", 1)
         ELSE <<>>
    ELSE (IF part = "metadata"
          THEN <<"///">> \o items[i].key \o <<":">> \o items[i].value \o <<"\n">>
          ELSE IF part = "documentation" THEN <<"///", " ">> \o items[i] \o <<"\n">>
          ELSE serialize_rule(items[i]))
         \o SerializeFrom(c, part, i + 1)

serialize_textra_config(c) == SerializeFrom(c, "metadata", 1)

\* first position of t in s from position from on, Len(s) + 1 when there is none
IndexFrom(s, t, from) ==
    IF \E i \in from..Len(s) : s[i] = t
    THEN CHOOSE i \in from..Len(s) : s[i] = t /\ \A j \in from..(i - 1) : s[j] # t
    ELSE Len(s) + 1

Blank(ch) == ch \in {" ", "\n"}

RECURSIVE Trim(_)
\* str::trim
Trim(s) ==
    IF s = <<>> THEN s
    ELSE IF Blank(Head(s)) THEN Trim(Tail(s))
    ELSE IF Blank(s[Len(s)]) THEN Trim(SubSeq(s, 1, Len(s) - 1))
    ELSE s

RECURSIVE parse_triggers(_)
\* the triggers of a rule, separated by " | ", each trimmed
parse_triggers(s) ==
    LET i == IndexFrom(s, " | ", 1) IN
    IF i > Len(s) THEN <<Trim(s)>>
    ELSE <<Trim(SubSeq(s, 1, i - 1))>> \o parse_triggers(SubSeq(s, i + 1, Len(s)))

\* the replacement at the head of s and the position after it: a fenced block
\* (language up to the end of the line, trimmed; content all there is
\* between that line and the closing fence), a block between back ticks, or
\* the rest of the line
parse_replacement(s) ==
    IF s # <<>> /\ s[1] = Fence THEN
        LET nl == IndexFrom(s, "\n", 2)
            close == IndexFrom(s, Fence, nl + 1) IN
        [ok |-> nl <= Len(s) /\ close <= Len(s),
         replacement |-> [kind |-> "Code", language |-> Trim(SubSeq(s, 2, nl - 1)),
                         content |-> SubSeq(s, nl + 1, close - 1)],
         next |-> close + 1]
    ELSE IF s # <<>> /\ s[1] = BackTick THEN
        LET close == IndexFrom(s, BackTick, 2) IN
        [ok |-> close <= Len(s),
         replacement |-> [kind |-> "Multiline", text |-> SubSeq(s, 2, close - 1)],
         next |-> close + 1]
    ELSE
        LET nl == IndexFrom(s, "\n", 1) IN
        [ok |-> nl > 1,
         replacement |-> [kind |-> "Simple", text |-> SubSeq(s, 1, nl - 1)],
         next |-> nl]

RECURSIVE ParseFile(_, _)
\* parse_textra_config: the items of the file in order.  A "///" line with
\* key:value right after the marker is metadata, another "///" line is
\* documentation (trimmed), a "//" line is a comment, and a rule is its
\* triggers, " => " and its replacement, with description and category None.
ParseFile(s, c) ==
    IF s = <<>> THEN c
    ELSE IF Blank(Head(s)) THEN ParseFile(Tail(s), c)
    ELSE LET nl == IndexFrom(s, "\n", 1)
             line == SubSeq(s, 2, nl - 1)
             rest == SubSeq(s, nl + 1, Len(s))
             colon == IndexFrom(line, ":", 1)
             arrow == IndexFrom(s, " => ", 1)
             r == parse_replacement(SubSeq(s, arrow + 1, Len(s)))
         IN
         IF Head(s) = "///" THEN
             IF line # <<>> /\ ~Blank(line[1]) /\ colon <= Len(line)
             THEN ParseFile(rest, [c EXCEPT !.metadata =
                     Append(@, [key |-> SubSeq(line, 1, colon - 1),
                                value |-> SubSeq(line, colon + 1, Len(line))])])
             ELSE ParseFile(rest, [c EXCEPT !.documentation = Append(@, Trim(line))])
         ELSE IF Head(s) = "//" THEN ParseFile(rest, c)
         ELSE IF arrow > nl \/ ~r.ok THEN [c EXCEPT !.ok = FALSE]
         ELSE ParseFile(SubSeq(s, arrow + r.next, Len(s)),
                        [c EXCEPT !.rules =
                            Append(@, [triggers |-> parse_triggers(SubSeq(s, 1, arrow - 1)),
                                       replacement |-> r.replacement,
                                       description |-> None, category |-> None])])

parse_textra_config(s) ==
    ParseFile(s, [ok |-> TRUE, metadata |-> <<>>, documentation |-> <<>>, rules |-> <<>>])

\* the configurations of the round trip: with and without a metadata entry
\* and a documentation line, one or two triggers, every kind of replacement
\* (code with and without a new line at its end), with and without
\* description and category
RoundTripRules ==
    {[triggers |-> ts, replacement |-> r, description |-> d, category |-> g] :
        ts \in {<<<<"t">>>>, <<<<"t">>, <<"w">>>>},
        r \in {[kind |-> "Simple", text |-> <<"y", " ", "y">>],
               [kind |-> "Multiline", text |-> <<"y", "\n", "y">>],
               [kind |-> "Code", language |-> <<"p">>, content |-> <<"c">>],
               [kind |-> "Code", language |-> <<"p">>, content |-> <<"c", "\n">>]},
        d \in {None, <<"g">>}, g \in {None, <<"G">>}}

RoundTripConfigs ==
    {[ok |-> TRUE, metadata |-> m, documentation |-> d, rules |-> rs] :
        m \in {<<>>, <<[key |-> <<"k">>, value |-> <<"1", ".", "0">>]>>},
        d \in {<<>>, <<<<"d", " ", "d">>>>},
        rs \in UNION {[1..n -> RoundTripRules] : n \in 1..MaxRules}}

CallRoundTrip ==
    /\ call = NoCall
    /\ \E c \in RoundTripConfigs :
          LET once == parse_textra_config(serialize_textra_config(c)) IN
          call' = [fn |-> "round_trip", c |-> c, once |-> once,
                   twice |-> parse_textra_config(serialize_textra_config(once))]
    /\ UNCHANGED <<engineVars, GENERATING_INPUT, osQueue, pc, rep, failures, keysLeft,
                   fired, emitted, lastHook, outcome, ghostTime, reloadVars, tpl, kbd, sideVars>>

NextCall ==
    \/ CallPropagateCase
    \/ CallPerformReplacement
    \/ CallRetryWithBackoff
    \/ CallVersionCompare
    \/ CallRoundTrip

SpecCall == Init /\ [][NextCall]_vars

\* The engine when character keys are pressed in quick succession until the
\* buffer is full and beyond.
InitFill ==
    /\ AppStateNew
    /\ keysLeft = MaxPushKeys

NextFill == UserFillKey

SpecFill == InitFill /\ [][NextFill]_vars

---------------------------------------------------------------------------
(* AppState::handle_template_selected, called on the thread of the IPC     *)
(* listener for a TemplateSelected message: hide_overlay, then type_text   *)
(* through retry_with_backoff.  It uses the send_key of the replacements   *)
(* and so the same GENERATING_INPUT.  tpl.attempts, tpl.i and tpl.k count  *)
(* as rep.attempts, rep.i and rep.k do.                                    *)

Templates == {<<"y">>}

TplKeys == TypeKeys(tpl.text)

TplInputs == SendKeyInputs(TplKeys[tpl.i + 1])

TplInSendKey == tpl.pc = "type_text" /\ tpl.i < Len(TplKeys)

\* the TemplateSelected message is handled: when HideOverlay cannot be sent
\* the `?` returns before anything is typed
TemplateSelected ==
    /\ tpl.pc = "idle"
    /\ tpl.res = "none"
    /\ \E text \in Templates, ipcOk \in BOOLEAN :
          IF ipcOk
          THEN /\ overlay_visible' = FALSE
               /\ tpl' = [NoTpl EXCEPT !.pc = "type_text", !.text = text]
          ELSE /\ tpl' = [NoTpl EXCEPT !.res = "err"]
               /\ UNCHANGED overlay_visible
    /\ UNCHANGED <<config, current_text, sinceKey, shift_pressed, ctrl_pressed,
                   alt_pressed, caps_lock_on, killswitch, last_shift_time,
                   GENERATING_INPUT, osQueue, pc, rep, failures, keysLeft, fired,
                   emitted, lastHook, outcome, ghostTime, call, reloadVars, kbd, sideVars>>

\* send_key on the IPC thread: SendInput succeeds for the next input
TplSendInputOk ==
    /\ TplInSendKey
    /\ tpl.k < Len(TplInputs)
    /\ Len(osQueue) < MaxQueue
    /\ GENERATING_INPUT' = TRUE
    /\ osQueue' = Append(osQueue, TplInputs[tpl.k + 1])
    /\ tpl' = [tpl EXCEPT !.k = @ + 1]
    /\ UNCHANGED <<engineVars, pc, rep, failures, keysLeft, fired, emitted, lastHook,
                   outcome, ghostTime, call, reloadVars, kbd, sideVars>>

\* send_key on the IPC thread: SendInput returns 0
TplSendInputFail ==
    /\ TplInSendKey
    /\ tpl.k < Len(TplInputs)
    /\ failures < MaxFailures
    /\ failures' = failures + 1
    /\ GENERATING_INPUT' = GateOnError(GENERATING_INPUT)
    /\ tpl' = IF RetryAgain(tpl.attempts + 1)
              THEN [tpl EXCEPT !.attempts = @ + 1, !.i = 0, !.k = 0]
              ELSE [NoTpl EXCEPT !.res = "err"]
    /\ UNCHANGED <<engineVars, osQueue, pc, rep, keysLeft, fired, emitted, lastHook,
                   outcome, ghostTime, call, reloadVars, kbd, sideVars>>

\* send_key on the IPC thread: every input of the key is sent
TplSendKeyEnd ==
    /\ TplInSendKey
    /\ tpl.k = Len(TplInputs)
    /\ GENERATING_INPUT' = GateOnReturn(GENERATING_INPUT)
    /\ tpl' = IF tpl.i + 1 < Len(TplKeys)
              THEN [tpl EXCEPT !.i = @ + 1, !.k = 0]
              ELSE [NoTpl EXCEPT !.res = "ok"]
    /\ UNCHANGED <<engineVars, osQueue, pc, rep, failures, keysLeft, fired, emitted,
                   lastHook, outcome, ghostTime, call, reloadVars, kbd, sideVars>>

\* Key-downs that complete the second trigger of CfgOrder
TplEvents ==
    {[dir |-> "down", vk |-> vk, synthetic |-> FALSE] : vk \in {"t", "w"}}

UserTplKey ==
    /\ keysLeft > 0
    /\ pc = "idle"
    /\ osQueue = <<>>
    /\ \E ev \in TplEvents : Hook(ev)
    /\ keysLeft' = keysLeft - 1
    /\ osQueue' = osQueue
    /\ UNCHANGED auxVars

InitTemplate ==
    /\ AppStateNew
    /\ config = CfgOrder
    /\ keysLeft = MaxTplKeys

NextTemplate ==
    \/ UserTplKey
    \/ HookProc
    \/ SendInputOk
    \/ SendInputFail
    \/ SendKeyEnd
    \/ TemplateSelected
    \/ TplSendInputOk
    \/ TplSendInputFail
    \/ TplSendKeyEnd

SpecTemplate == InitTemplate /\ [][NextTemplate]_vars

---------------------------------------------------------------------------
(* Reloading the configuration.  update_config is called by the watcher    *)
(* thread for every change of the config file it is told of, and by the    *)
(* thread of the IPC listener for every UpdateConfig message.  It reads    *)
(* and parses the file without holding a lock, then takes the mutex of     *)
(* AppState::config for the assignment.  find_replacement holds that mutex *)
(* from before the first rule to its return.                               *)

ReloadConfigs == {CfgOrder, CfgCode}

FileContents == {GoodFile(c) : c \in ReloadConfigs} \cup {BadFile}

\* texts find_replacement is called on: the first ends with triggers of
\* CfgOrder, the second with a trigger of the second rule of CfgCode
ScanTexts == {<<"b", "t", "w">>, <<"w", "w">>}

\* a load_config that falls back to an empty rule set
load_config_default(f) == [ok |-> TRUE, cfg |-> f.cfg]

\* load_config: the parsed content, or the error of reading or parsing
load_config(f) == f

\* an assignment that adds the loaded rules to the ones in force
AssignConfigExtend(old, new) == old \o new

\* *config_lock = new_config.clone()
AssignConfig(old, new) == new

\* the config file is written; the watcher is told of it
WriteConfigFile ==
    /\ raised < MaxSignals
    /\ \E f \in FileContents \ {file} : file' = f
    /\ raised' = raised + 1
    /\ signals' = [signals EXCEPT !["watcher"] = @ + 1]
    /\ UNCHANGED <<engineVars, GENERATING_INPUT, osQueue, pc, rep, failures, keysLeft,
                   fired, emitted, lastHook, outcome, ghostTime, call, tpl, kbd, sideVars,
                   lastReload, thr, cfgLock, scan>>

\* an UpdateConfig message arrives at the IPC listener
SendUpdateConfig ==
    /\ raised < MaxSignals
    /\ raised' = raised + 1
    /\ signals' = [signals EXCEPT !["ipc"] = @ + 1]
    /\ UNCHANGED <<engineVars, GENERATING_INPUT, osQueue, pc, rep, failures, keysLeft,
                   fired, emitted, lastHook, outcome, ghostTime, call, tpl, kbd, sideVars,
                   file, lastReload, thr, cfgLock, scan>>

\* update_config up to the `?` of load_config: thread t takes up a signal
\* and reads the file; on an error it returns at once
LoadConfig(t) ==
    /\ thr[t].pc = "idle"
    /\ signals[t] > 0
    /\ signals' = [signals EXCEPT ![t] = @ - 1]
    /\ LET r == load_config(file)
       IN  /\ thr' = [thr EXCEPT ![t] = IF r.ok THEN [pc |-> "loaded", cfg |-> r.cfg, same |-> FALSE]
                                        ELSE IdleThread]
           /\ lastReload' = IF r.ok THEN lastReload ELSE [res |-> "failed", same |-> FALSE]
    /\ UNCHANGED <<engineVars, GENERATING_INPUT, osQueue, pc, rep, failures, keysLeft,
                   fired, emitted, lastHook, outcome, ghostTime, call, tpl, kbd, sideVars,
                   file, raised, cfgLock, scan>>

\* update_config under the mutex: the assignment, after which the lock is
\* released with the ConfigReloaded message still to be sent
StoreConfig(t) ==
    /\ thr[t].pc = "loaded"
    /\ ConfigLockFree(cfgLock)
    /\ config' = AssignConfig(config, thr[t].cfg)
    /\ thr' = [thr EXCEPT ![t] = [pc |-> "stored", cfg |-> thr[t].cfg,
                                  same |-> thr[t].cfg = config]]
    /\ UNCHANGED <<current_text, sinceKey, shift_pressed, ctrl_pressed, alt_pressed,
                   caps_lock_on, killswitch, last_shift_time, overlay_visible,
                   GENERATING_INPUT, osQueue, pc, rep, failures, keysLeft,
                   fired, emitted, lastHook, outcome, ghostTime, call, tpl, kbd, sideVars,
                   file, raised, lastReload, signals, cfgLock, scan>>

\* update_config after the lock: ipc::send_message of ConfigReloaded with the
\* snapshot this call installed; a connection that is made puts the message
\* behind those already on the overlay's pipe, one that fails is the error
\* of the call
SendConfigReloaded(t) ==
    /\ thr[t].pc = "stored"
    /\ thr' = [thr EXCEPT ![t] = IdleThread]
    /\ \E ipcOk \in BOOLEAN :
          /\ lastReload' = [res |-> IF ipcOk THEN "ok" ELSE "notify_failed",
                            same |-> thr[t].same]
          /\ overlayProc' = IF ipcOk
                            THEN [overlayProc EXCEPT !.inbox = Append(@, thr[t].cfg)]
                            ELSE [overlayProc EXCEPT !.lost = TRUE]
    /\ UNCHANGED <<engineVars, GENERATING_INPUT, osQueue, pc, rep, failures, keysLeft,
                   fired, emitted, lastHook, outcome, ghostTime, call, tpl, kbd,
                   listener, legacy, file, raised, signals, cfgLock, scan>>

\* the overlay's listener takes the next ConfigReloaded off its pipe:
\* OverlayState::update_config makes the snapshot the overlay's config
OverlayConfigReloaded ==
    /\ overlayProc.inbox # <<>>
    /\ overlayProc' = [overlayProc EXCEPT !.inbox = Tail(@),
                                          !.config = AssignConfig(@, Head(overlayProc.inbox)),
                                          !.applied = TRUE]
    /\ UNCHANGED <<engineVars, GENERATING_INPUT, osQueue, pc, rep, failures, keysLeft,
                   fired, emitted, lastHook, outcome, ghostTime, call, tpl, kbd,
                   listener, legacy, reloadVars>>

WatcherOrIpcLoads == \E t \in Threads : LoadConfig(t)

WatcherOrIpcStores == \E t \in Threads : StoreConfig(t)

WatcherOrIpcNotifies == \E t \in Threads : SendConfigReloaded(t)

\* a reloading thread holds a rule set other than the active one and waits
\* for the mutex
ReloadWaits == \E t \in Threads : thr[t].pc = "loaded" /\ thr[t].cfg # config

\* find_replacement is entered: the mutex is taken
FindStart ==
    /\ scan.pc # "scanning"
    /\ cfgLock = "free"
    /\ cfgLock' = "find_replacement"
    /\ \E text \in ScanTexts :
          scan' = [pc |-> "scanning", text |-> text, i |-> 1, cfg0 |-> config,
                   seen |-> <<>>, result |-> NoMatch, waited |-> FALSE,
                   after |-> lastReload.res]
    /\ UNCHANGED <<engineVars, GENERATING_INPUT, osQueue, pc, rep, failures, keysLeft,
                   fired, emitted, lastHook, outcome, ghostTime, call, tpl, kbd, sideVars,
                   file, raised, lastReload, signals, thr>>

\* one turn of `for rule in &config_lock.rules`
FindStep ==
    /\ scan.pc = "scanning"
    /\ scan.result.rule = 0
    /\ scan.i <= Len(config)
    /\ LET rule == config[scan.i]
           m == ScanTriggers(config, scan.text, scan.i, 1)
       IN  \E ex \in (IF m.rule > 0 /\ rule.kind = "Code"
                      THEN ExecOutcomes(rule.lang) ELSE {"none"}) :
              scan' = [scan EXCEPT
                         !.i = @ + 1,
                         !.seen = Append(@, rule),
                         !.waited = @ \/ ReloadWaits,
                         !.result = IF m.rule > 0
                                    THEN [m EXCEPT !.text = replacement_text(rule, ex)]
                                    ELSE NoMatch]
    /\ UNCHANGED <<engineVars, GENERATING_INPUT, osQueue, pc, rep, failures, keysLeft,
                   fired, emitted, lastHook, outcome, ghostTime, call, tpl, kbd, sideVars,
                   file, raised, lastReload, signals, thr, cfgLock>>

\* find_replacement returns and the guard of the mutex is dropped
FindEnd ==
    /\ scan.pc = "scanning"
    /\ scan.result.rule > 0 \/ scan.i > Len(config)
    /\ scan' = [scan EXCEPT !.pc = "done"]
    /\ cfgLock' = "free"
    /\ UNCHANGED <<engineVars, GENERATING_INPUT, osQueue, pc, rep, failures, keysLeft,
                   fired, emitted, lastHook, outcome, ghostTime, call, tpl, kbd, sideVars,
                   file, raised, lastReload, signals, thr>>

InitReload ==
    /\ AppStateNew
    /\ config \in ReloadConfigs
    /\ keysLeft = MaxReloadKeys

NextReload ==
    \/ WriteConfigFile
    \/ SendUpdateConfig
    \/ WatcherOrIpcLoads
    \/ WatcherOrIpcStores
    \/ WatcherOrIpcNotifies
    \/ OverlayConfigReloaded
    \/ FindStart
    \/ FindStep
    \/ FindEnd
    \/ UserReloadKey

SpecReload == InitReload /\ [][NextReload]_vars

---------------------------------------------------------------------------
(* The keyboard monitors of keyboard_api.rs: WindowsKeyboard and, for the  *)
(* tests, MockKeyboard.  An operation of WindowsKeyboard runs inside       *)
(* retry_with_backoff; outs gives what the system call of the operation    *)
(* returns each time it is made.                                           *)

\* calls of monitor operations in one run
MaxMonitorOps == 6
\* connections made to the daemon's pipe, and lines written on one connection
MaxConns == 2
MaxLines == 2
\* character keys typed with the channel-based dispatcher running
MaxLegacyKeys == 4

Monitors == {"win", "mock"}

is_running(m) == m.running

\* the operation of `who` returned ok: its counts and the record of the call
KbdAfter(who, m, op, ok, health) ==
    [kbd EXCEPT ![who] = m,
                !.failed[who] = IF ok THEN @ ELSE @ + 1,
                !.failedRunning[who] = IF ~ok /\ is_running(kbd[who]) THEN @ + 1 ELSE @,
                !.ops = @ + 1,
                !.last = [who |-> who, op |-> op, ok |-> ok, health |-> health]]

\* what the operations of the monitors leave alone
engineState == <<engineVars, GENERATING_INPUT, osQueue, pc, rep, failures, keysLeft,
                 fired, emitted, lastHook, outcome, ghostTime, call, reloadVars, tpl,
                 sideVars>>

\* WindowsKeyboard::start with the results outs of SetWindowsHookExW: nothing
\* when running; else the call until it gives a handle, every null handle a
\* recorded error
WinStart ==
    /\ kbd.ops < MaxMonitorOps
    /\ \E outs \in OpOutcomes :
          LET w == kbd.win
              r == retry_with_backoff(outs)
              counted == [w EXCEPT !.error_count = @ + r.attempts] IN
          kbd' = IF is_running(w) THEN KbdAfter("win", w, "start", TRUE, "none")
                 ELSE IF r.ok
                 THEN KbdAfter("win", [counted EXCEPT !.hook = TRUE, !.running = TRUE],
                               "start", TRUE, "none")
                 ELSE KbdAfter("win", counted, "start", FALSE, "none")
    /\ UNCHANGED engineState

\* the loop of retry_with_backoff around the closure of WindowsKeyboard::stop,
\* with the results outs of UnhookWindowsHookEx; hook_guard.take() empties
\* the handle before the call, and a failed unhook is a recorded error
RECURSIVE StopLoop(_, _, _, _)
StopLoop(w, outs, attempts, calls) ==
    IF ~RetryAgain(attempts) THEN [w |-> w, ok |-> FALSE]
    ELSE IF ~w.hook THEN [w |-> w, ok |-> TRUE]
    ELSE IF outs[calls + 1]
    THEN [w |-> [w EXCEPT !.hook = FALSE, !.running = FALSE], ok |-> TRUE]
    ELSE StopLoop([w EXCEPT !.hook = FALSE, !.error_count = @ + 1],
                  outs, attempts + 1, calls + 1)

WinStop ==
    /\ kbd.ops < MaxMonitorOps
    /\ \E outs \in OpOutcomes :
          LET r == StopLoop(kbd.win, outs, 0, 0) IN
          kbd' = KbdAfter("win", r.w, "stop", r.ok, "none")
    /\ UNCHANGED engineState

\* WindowsKeyboard::type_text and delete_chars: the input call until it
\* succeeds, every failure a recorded error
WinTypeText ==
    /\ kbd.ops < MaxMonitorOps
    /\ \E outs \in OpOutcomes :
          LET r == retry_with_backoff(outs) IN
          kbd' = KbdAfter("win", [kbd.win EXCEPT !.error_count = @ + r.attempts],
                          "type_text", r.ok, "none")
    /\ UNCHANGED engineState

\* analyze_error_patterns: one pattern when an error was recorded, with
\* consecutive_count 1
ConsecutiveCount(w) == IF w.error_count > 0 THEN 1 ELSE 0

WinHealth(w) ==
    IF ~is_running(w) THEN "Unhealthy"
    ELSE IF ~w.hook THEN "Degraded"
    ELSE IF ConsecutiveCount(w) > 2 THEN "Degraded"
    ELSE IF w.error_count > 5 THEN "Degraded"
    ELSE "Healthy"

WinHealthCheck ==
    /\ kbd.ops < MaxMonitorOps
    /\ kbd' = KbdAfter("win", kbd.win, "health_check", TRUE, WinHealth(kbd.win))
    /\ UNCHANGED engineState

\* MockKeyboard::set_fail_next
MockSetFailNext ==
    /\ \E should_fail \in BOOLEAN :
          /\ kbd.mock.fail_next # should_fail
          /\ kbd' = [kbd EXCEPT !.mock.fail_next = should_fail]
    /\ UNCHANGED engineState

\* MockKeyboard::record_error
MockRecordError(m) ==
    [m EXCEPT !.error_count = @ + 1, !.consecutive_failures = @ + 1]

\* MockKeyboard::simulate_operation: the simulated failure, or f(), which
\* leaves the monitor as `done`
simulate_operation(op, done) ==
    LET m == kbd.mock IN
    IF m.fail_next
    THEN KbdAfter("mock", MockRecordError([m EXCEPT !.fail_next = FALSE]), op, FALSE, "none")
    ELSE KbdAfter("mock", done, op, TRUE, "none")

MockStart ==
    /\ kbd.ops < MaxMonitorOps
    /\ kbd' = simulate_operation("start", [kbd.mock EXCEPT !.running = TRUE])
    /\ UNCHANGED engineState

MockStop ==
    /\ kbd.ops < MaxMonitorOps
    /\ kbd' = simulate_operation("stop", [kbd.mock EXCEPT !.running = FALSE])
    /\ UNCHANGED engineState

MockTypeText ==
    /\ kbd.ops < MaxMonitorOps
    /\ kbd' = simulate_operation("type_text", kbd.mock)
    /\ UNCHANGED engineState

MockHealth(m) ==
    IF ~is_running(m) THEN "Unhealthy"
    ELSE IF m.consecutive_failures > 3 THEN "Unhealthy"
    ELSE IF m.error_count > 5 THEN "Degraded"
    ELSE "Healthy"

MockHealthCheck ==
    /\ kbd.ops < MaxMonitorOps
    /\ kbd' = KbdAfter("mock", kbd.mock, "health_check", TRUE, MockHealth(kbd.mock))
    /\ UNCHANGED engineState

NextMonitor ==
    \/ WinStart
    \/ WinStop
    \/ WinTypeText
    \/ WinHealthCheck
    \/ MockSetFailNext
    \/ MockStart
    \/ MockStop
    \/ MockTypeText
    \/ MockHealthCheck

SpecMonitor == Init /\ [][NextMonitor]_vars

TypeOK ==
    /\ config \in Configs
    /\ Len(current_text) <= MAX_TEXT_LENGTH
    /\ pc \in {"idle", "delete_chars", "type_text"}
    /\ GENERATING_INPUT \in BOOLEAN
    /\ Len(osQueue) <= MaxQueue
    /\ freshLen \in 0..Len(current_text)
    /\ charFresh \in 0..Len(current_text)

---------------------------------------------------------------------------
(* ipc::listen_for_messages as the daemon runs it (DAEMON_PIPE_NAME): one   *)
(* thread accepts a connection and reads its lines to the end before it     *)
(* accepts the next one.  listener.conns holds every connection made, in    *)
(* the order of the connects, with the lines its client has written;        *)
(* listener.accepted counts the connections taken by accept and             *)
(* listener.pos the lines read from the last of them.  A line is an         *)
(* IpcMessage (named by its variant), a line serde_json rejects, or a read  *)
(* that fails.                                                              *)

Garbage == "<garbage>"
ReadError == "<read error>"

IpcLines == {"HideOverlay", "StatusRequest", Garbage, ReadError}

\* a listener that gives up a connection at a line it cannot parse
EndsConnectionOnInvalid(line) == line \in {ReadError, Garbage}

\* the Err(e) arm of `for line_result in reader.lines()` ends the reading of
\* the connection; no other line does
EndsConnection(line) == line = ReadError

\* serde_json::from_str::<IpcMessage>(&line) is Ok
ParsesAsMessage(line) == line \in {"HideOverlay", "StatusRequest"}

\* the callback of the daemon (core.rs main): StatusRequest answers with a
\* StatusResponse to the overlay, whose send gives the result; HideOverlay
\* falls to the arm that ignores the message
DaemonCallback(msg, sendOk) ==
    CASE msg = "StatusRequest" -> sendOk
      [] OTHER -> TRUE

\* AppState::show_overlay when the double Shift is seen: ShowOverlay is sent
\* and the flag is set
ShowOverlay ==
    /\ ~overlay_visible
    /\ overlay_visible' = TRUE
    /\ UNCHANGED <<config, current_text, sinceKey, shift_pressed, ctrl_pressed, alt_pressed,
                   caps_lock_on, killswitch, last_shift_time,
                   GENERATING_INPUT, osQueue, pc, rep, failures, keysLeft, fired, emitted,
                   lastHook, outcome, ghostTime, auxVars>>

\* a client (the overlay, the CLI) connects to the pipe
ClientConnect ==
    /\ Len(listener.conns) < MaxConns
    /\ listener' = [listener EXCEPT !.conns = Append(@, [sent |-> <<>>, open |-> TRUE])]
    /\ UNCHANGED <<engineVars, GENERATING_INPUT, osQueue, pc, rep, failures, keysLeft,
                   fired, emitted, lastHook, outcome, ghostTime, call, reloadVars, tpl, kbd,
                   overlayProc, legacy>>

\* a client writes a line on its connection; the overlay writes HideOverlay
\* (UIEvent::CloseOverlay) only while the picker is shown
ClientWrites ==
    /\ \E i \in 1..Len(listener.conns), line \in IpcLines :
          /\ listener.conns[i].open
          /\ Len(listener.conns[i].sent) < MaxLines
          /\ line = "HideOverlay" => overlay_visible
          /\ listener' = [listener EXCEPT !.conns[i].sent = Append(@, line)]
    /\ UNCHANGED <<engineVars, GENERATING_INPUT, osQueue, pc, rep, failures, keysLeft,
                   fired, emitted, lastHook, outcome, ghostTime, call, reloadVars, tpl, kbd,
                   overlayProc, legacy>>

\* a client closes its connection
ClientCloses ==
    /\ \E i \in 1..Len(listener.conns) :
          /\ listener.conns[i].open
          /\ listener' = [listener EXCEPT !.conns[i].open = FALSE]
    /\ UNCHANGED <<engineVars, GENERATING_INPUT, osQueue, pc, rep, failures, keysLeft,
                   fired, emitted, lastHook, outcome, ghostTime, call, reloadVars, tpl, kbd,
                   overlayProc, legacy>>

\* listener.incoming() gives the next connection
ListenerAccepts ==
    /\ listener.pc = "accept"
    /\ listener.accepted < Len(listener.conns)
    /\ listener' = [listener EXCEPT !.accepted = @ + 1, !.pos = 0, !.pc = "read"]
    /\ UNCHANGED <<engineVars, GENERATING_INPUT, osQueue, pc, rep, failures, keysLeft,
                   fired, emitted, lastHook, outcome, ghostTime, call, reloadVars, tpl, kbd,
                   overlayProc, legacy>>

\* reader.lines() gives the next line of the connection: a failed read ends
\* the connection, a line that does not parse is logged, a message goes to
\* the callback, whose error is logged
ListenerReadsLine ==
    /\ listener.pc = "read"
    /\ listener.pos < Len(listener.conns[listener.accepted].sent)
    /\ LET line == listener.conns[listener.accepted].sent[listener.pos + 1]
       IN  \E sendOk \in BOOLEAN :
              listener' =
                 IF EndsConnection(line)
                 THEN [listener EXCEPT !.pc = "accept"]
                 ELSE IF ParsesAsMessage(line)
                 THEN [listener EXCEPT !.pos = @ + 1,
                                       !.calls = Append(@, [msg |-> line,
                                                            ok |-> DaemonCallback(line, sendOk)])]
                 ELSE [listener EXCEPT !.pos = @ + 1]
    /\ UNCHANGED <<engineVars, GENERATING_INPUT, osQueue, pc, rep, failures, keysLeft,
                   fired, emitted, lastHook, outcome, ghostTime, call, reloadVars, tpl, kbd,
                   overlayProc, legacy>>

\* reader.lines() ends: the client has closed and every line is read
ListenerConnectionEnds ==
    /\ listener.pc = "read"
    /\ listener.pos = Len(listener.conns[listener.accepted].sent)
    /\ ~listener.conns[listener.accepted].open
    /\ listener' = [listener EXCEPT !.pc = "accept"]
    /\ UNCHANGED <<engineVars, GENERATING_INPUT, osQueue, pc, rep, failures, keysLeft,
                   fired, emitted, lastHook, outcome, ghostTime, call, reloadVars, tpl, kbd,
                   overlayProc, legacy>>

\* the lines of a connection the listener is to read: on the connection it
\* is reading, those up to its position; on one it has left, all of them
LinesReached(i) ==
    IF i = listener.accepted /\ listener.pc = "read"
    THEN SubSeq(listener.conns[i].sent, 1, listener.pos)
    ELSE listener.conns[i].sent

\* the messages among lines that come before the first failed read
RECURSIVE MessagesOf(_)
MessagesOf(lines) ==
    IF lines = <<>> \/ Head(lines) = ReadError THEN <<>>
    ELSE IF Head(lines) = Garbage THEN MessagesOf(Tail(lines))
    ELSE <<Head(lines)>> \o MessagesOf(Tail(lines))

\* what the callback is due from the accepted connections i and later
RECURSIVE DueFrom(_)
DueFrom(i) ==
    IF i > listener.accepted THEN <<>>
    ELSE MessagesOf(LinesReached(i)) \o DueFrom(i + 1)

InitIpc ==
    /\ AppStateNew
    /\ config = CfgBtw
    /\ keysLeft = 0

NextIpc ==
    \/ ShowOverlay
    \/ ClientConnect
    \/ ClientWrites
    \/ ClientCloses
    \/ ListenerAccepts
    \/ ListenerReadsLine
    \/ ListenerConnectionEnds

SpecIpc == InitIpc /\ [][NextIpc]_vars

---------------------------------------------------------------------------
(* The channel-based dispatcher of keyboard.rs (main.rs has the same hook). *)
(* keyboard_hook_proc sends Message::KeyEvent into the channel when the     *)
(* static GENERATING is clear and passes the key on with CallNextHookEx, so *)
(* the character is in the focused application (legacy.screen) when the     *)
(* hook returns.  main_loop receives the messages on the dispatch thread    *)
(* and runs handle_key_event on each.  Character keys are typed without     *)
(* modifiers and less than a second apart; their key-ups take the arm that  *)
(* does nothing and are left out.                                           *)

LegacyChars == {"b", "t", "w", "y"}

\* keyboard.rs propagate_case_fn
propagate_case_fn(original, replacement) ==
    IF \A k \in 1..Len(original) : is_uppercase(original[k])
    THEN [k \in 1..Len(replacement) |-> ToUpperChar(replacement[k])]
    ELSE IF is_uppercase(original[1])
         THEN IF replacement = <<>> THEN <<>>
              ELSE <<ToUpperChar(replacement[1])>> \o Tail(replacement)
    ELSE replacement

\* keyboard.rs check_and_replace: rules in order, triggers in order, the
\* first trigger the text ends with
check_and_replace(cfg, text) == ScanRules(cfg, text, 1)

\* the push_back of each character of the typed text, with the pop_front
\* that keeps the capacity
RECURSIVE PushAll(_, _)
PushAll(buf, text) ==
    IF text = <<>> THEN buf ELSE PushAll(PushChar(buf, Head(text)), Tail(text))

\* the user presses a character key: the hook runs with GENERATING clear
\* (perform_replacement is not running), queues the event and lets the key
\* through to the focused application
LegacyUserKey ==
    /\ legacy.typed < MaxLegacyKeys
    /\ \E c \in LegacyChars :
          legacy' = [legacy EXCEPT !.typed = @ + 1,
                                   !.chan = Append(@, c),
                                   !.screen = Append(@, c)]
    /\ UNCHANGED <<engineVars, GENERATING_INPUT, osQueue, pc, rep, failures, keysLeft,
                   fired, emitted, lastHook, outcome, ghostTime, call, reloadVars, tpl, kbd,
                   overlayProc, listener>>

\* main_loop receives the next KeyEvent: handle_key_event pushes the
\* character and check_and_replace looks for a trigger; on a match
\* perform_replacement sets GENERATING, sends one backspace per character
\* of the trigger and the keys of the replacement to the focused
\* application, clears GENERATING and updates current_text
LegacyDispatch ==
    /\ legacy.chan # <<>>
    /\ LET text == PushChar(legacy.buf, Head(legacy.chan))
           m == check_and_replace(config, text)
           final == propagate_case_fn(m.trigger, m.text)
           n == CharCount(m.trigger)
       IN  legacy' =
              IF m.rule > 0
              THEN [legacy EXCEPT
                      !.chan = Tail(@),
                      !.screen = PopBackN(@, n) \o final,
                      !.buf = PushAll(PopBackN(text, StrLen(m.trigger)), final),
                      !.fired = TRUE,
                      !.trigger = m.trigger,
                      !.deleted = SubSeq(legacy.screen,
                                         Max(Len(legacy.screen) - n, 0) + 1,
                                         Len(legacy.screen))]
              ELSE [legacy EXCEPT !.chan = Tail(@), !.buf = text]
    /\ UNCHANGED <<engineVars, GENERATING_INPUT, osQueue, pc, rep, failures, keysLeft,
                   fired, emitted, lastHook, outcome, ghostTime, call, reloadVars, tpl, kbd,
                   overlayProc, listener>>

InitLegacy ==
    /\ AppStateNew
    /\ config = CfgBtw
    /\ keysLeft = 0

NextLegacy ==
    \/ LegacyUserKey
    \/ LegacyDispatch

SpecLegacy == InitLegacy /\ [][NextLegacy]_vars

---------------------------------------------------------------------------
(* Properties.                                                             *)

Btw == <<"b", "t", "w">>

\* the hook is called for the oldest waiting key transition
HookDelivery == osQueue # <<>> /\ osQueue' = Tail(osQueue)

\* C1: while GENERATING_INPUT is true, a key event delivered to the hook is
\* discarded: the buffer, the modifier flags, the killswitch, the gesture
\* timestamp and the last-key time stay as they are and no replacement starts.
C1_GateDiscardsEvent ==
    [][(GENERATING_INPUT /\ HookDelivery) =>
          UNCHANGED <<current_text, shift_pressed, ctrl_pressed, alt_pressed,
                      caps_lock_on, killswitch, last_shift_time, sinceKey,
                      overlay_visible, pc, rep, fired, emitted>>]_vars

C1_Witness == lastHook.res = "discarded" /\ GENERATING_INPUT /\ pc # "idle"

\* C2: no synthetic key event of a replacement is ever handled by the engine
\* as real input.
C2_NoSyntheticHandled == ~(lastHook.res = "handled" /\ lastHook.synthetic)

\* C3: during one replacement the gate, once set, stays set for as long as
\* the replacement is still in progress.
C3_GateHeldThroughReplacement ==
    [][(pc # "idle" /\ GENERATING_INPUT /\ pc' # "idle") => GENERATING_INPUT']_vars

\* (rule i, trigger j) comes before (rule k, trigger l) in declaration order
Earlier(i, j, k, l) == i < k \/ (i = k /\ j < l)

Triggers(cfg) == UNION {{<<i, j>> : j \in 1..Len(cfg[i].triggers)} : i \in 1..Len(cfg)}

\* C4: on a pushed KeyDown(Char) the trigger that fires is the first one, in
\* rule order and then trigger order, that is a suffix of the buffer; it is
\* the only one that fires, and nothing fires only when no trigger is a suffix.
C4_FirstMatchWins ==
    "buf" \in DOMAIN fired =>
        IF fired.rule = 0
        THEN \A p \in Triggers(config) : ~EndsWith(fired.buf, config[p[1]].triggers[p[2]])
        ELSE /\ <<fired.rule, fired.trig>> \in Triggers(config)
             /\ fired.trigger = config[fired.rule].triggers[fired.trig]
             /\ EndsWith(fired.buf, fired.trigger)
             /\ \A p \in Triggers(config) :
                   Earlier(p[1], p[2], fired.rule, fired.trig) =>
                       ~EndsWith(fired.buf, config[p[1]].triggers[p[2]])

\* a later and longer trigger also ends the buffer
C4_Witness ==
    /\ fired.rule > 0
    /\ \E p \in Triggers(config) :
          /\ Earlier(fired.rule, fired.trig, p[1], p[2])
          /\ EndsWith(fired.buf, config[p[1]].triggers[p[2]])
          /\ Len(config[p[1]].triggers[p[2]]) > Len(fired.trigger)

\* C5: with the rule btw => text, the overlay hidden, the killswitch clear and
\* no idle gap, typing b, t, w produces one replacement with that trigger and
\* text, and once it is over the buffer does not end with the trigger.
C5_TypedTriggerReplaced ==
    (config = CfgBtw /\ typedRun = Btw) =>
        /\ fired.rule > 0
        /\ fired.trigger = Btw
        /\ fired.text = CfgBtw[1].text
        /\ (pc = "idle" => ~EndsWith(current_text, Btw))

\* C6: the backspace pairs synthesized for one replacement never exceed the
\* trigger's character count and equal it when the replacement succeeds.
C6_BackspacesBounded ==
    /\ emitted.bsUp <= emitted.n
    /\ outcome = "ok" => emitted.bsUp = emitted.n

\* C7: a trigger that matches while the killswitch is true causes no
\* synthetic event.
C7_KillswitchNoSynthesis ==
    (fired.rule > 0 /\ fired.killed) =>
        /\ pc = "idle"
        /\ emitted.bsDown = 0 /\ emitted.bsUp = 0 /\ emitted.typed = 0

C7_Witness == fired.rule > 0 /\ fired.killed

\* C8: after the engine has handled KeyUp(Escape) the killswitch is false.
C8_EscapeUpClearsKillswitch ==
    (lastHook.res = "handled" /\ lastHook.escUp) => ~killswitch

\* C9 as stated: a match never uses characters typed before a gap of more
\* than 1000 ms between two consecutive character key-downs.
C9_NoMatchAcrossCharGap == fired.rule > 0 => Len(fired.trigger) <= fired.charFresh

\* C9 amended: a match never uses characters typed before a gap of more than
\* 1000 ms between two consecutive key-downs of any key.
C9_NoMatchAcrossKeyDownGap == fired.rule > 0 => Len(fired.trigger) <= fired.fresh

C9_Witness == gapSeen /\ fired.rule > 0

C11_OnlyTypedCharsPushed == ~(lastHook.pushed /\ lastHook.synthetic)

\* the hook handled a key transition in this step and pushed its character
KeyPushed == lastHook'.pushed /\ (keysLeft' # keysLeft \/ HookDelivery)

\* C12: the buffer never holds more than MAX_TEXT_LENGTH characters, and a
\* push onto a full buffer removes exactly the oldest character and keeps the
\* others in order behind it.
C12_CapacityAndEviction ==
    /\ [](Len(current_text) <= MAX_TEXT_LENGTH)
    /\ [][(KeyPushed /\ Len(current_text) = MAX_TEXT_LENGTH /\ sinceKey <= IDLE_MS) =>
             /\ Len(current_text') = MAX_TEXT_LENGTH
             /\ SubSeq(current_text', 1, MAX_TEXT_LENGTH - 1) = Tail(current_text)]_vars

\* every character of str is an uppercase letter
AllUpper(str) == \A k \in 1..Len(str) : str[k] \in {"T", "Y"}

UpperOf(str) ==
    [k \in 1..Len(str) |-> IF str[k] = "t" THEN "T" ELSE IF str[k] = "y" THEN "Y" ELSE str[k]]

\* C13: propagate_case returns the replacement in upper case when the trigger
\* is not empty and all its characters are upper case; otherwise the
\* replacement with its first character in upper case when the trigger starts
\* with an upper-case character; otherwise the replacement as it is.
C13_PropagateCase ==
    call.fn = "propagate_case" =>
        LET o == call.original
            r == call.replacement
        IN  call.result =
               IF o # <<>> /\ AllUpper(o) THEN UpperOf(r)
               ELSE IF o # <<>> /\ AllUpper(<<o[1]>>) /\ r # <<>>
                    THEN UpperOf(<<r[1]>>) \o Tail(r)
               ELSE r

\* a mixed-case trigger that starts in lower case, and a replacement it leaves alone
C13_Witness ==
    /\ call.fn = "propagate_case"
    /\ call.original = <<"t", "T">>
    /\ call.replacement = <<"y", "y">>
    /\ call.result = <<"y", "y">>

Contains(text, part) ==
    \E k \in 0..(Len(text) - Len(part)) : SubSeq(text, k + 1, k + Len(part)) = part

C16_ScanSeesOneRuleSet ==
    scan.pc \in {"scanning", "done"} =>
        /\ Len(scan.seen) <= Len(scan.cfg0)
        /\ scan.seen = SubSeq(scan.cfg0, 1, Len(scan.seen))
        /\ (scan.pc = "done" /\ scan.result.rule = 0) => Len(scan.seen) = Len(scan.cfg0)
        /\ scan.result.rule > 0 =>
              LET rule == scan.cfg0[scan.result.rule]
              IN  /\ scan.result.rule = Len(scan.seen)
                  /\ \E j \in 1..Len(rule.triggers) : scan.result.trigger = rule.triggers[j]
                  /\ EndsWith(scan.text, scan.result.trigger)
                  /\ \E ex \in {"none"} \cup ExecOutcomes(rule.lang) :
                        scan.result.text = replacement_text(rule, ex)

\* a call that matched in its second rule while a thread waited for the lock
\* with another rule set, which is the active one now
C16_Witness ==
    /\ scan.pc = "done"
    /\ scan.waited
    /\ scan.result.rule = 2
    /\ config # scan.cfg0

\* thread t takes up a reload signal
TakesSignal(t) == signals'[t] < signals[t]

\* C17: when a reload finds a file that cannot be read or parsed, the active
\* rule set stays the one in force before it and no assignment is left
\* pending by the call.
C17_FailedReloadKeepsConfig ==
    [][\A t \in Threads :
          (TakesSignal(t) /\ ~file.ok) => /\ config' = config
                                          /\ thr'[t].pc = "idle"
                                          /\ lastReload'.res = "failed"]_vars

\* after a failed reload, find_replacement matched against the rule set
\* that is still the active one
C17_Witness ==
    /\ lastReload.res = "failed"
    /\ scan.pc = "done"
    /\ scan.after = "failed"
    /\ scan.result.rule > 0
    /\ scan.cfg0 = config
    /\ config # file.cfg

\* no reload signal is waiting and no thread is inside update_config
ReloadsDone == \A t \in Threads : signals[t] = 0 /\ thr[t].pc = "idle"

\* C18: when every reload signal has been processed and the file parses, the
\* active rule set is the one parsed from the file.
C18_ActiveConfigIsFileContent ==
    (ReloadsDone /\ file.ok) => config = file.cfg

\* thread t leaves update_config after the assignment
Stores(t) == thr[t].pc = "loaded" /\ thr'[t].pc = "stored"

\* C19: the assignment of a reload makes the loaded rule set the active one,
\* whatever was active before (so a second reload of the same content leaves
\* the rule set of the first), and changes nothing else of the engine: the
\* buffer, the last-key time, the modifier flags, the killswitch, the gesture
\* timestamp and the overlay-visible flag stay as they are.
C19_ReloadChangesOnlyConfig ==
    [][\A t \in Threads :
          Stores(t) => /\ config' = thr[t].cfg
                       /\ UNCHANGED <<current_text, sinceKey, shift_pressed, ctrl_pressed,
                                       alt_pressed, caps_lock_on, killswitch,
                                       last_shift_time, overlay_visible>>]_vars

\* a reload stored the content that was already active, with a character in
\* the buffer and the killswitch set
C19_Witness ==
    /\ lastReload.res = "ok"
    /\ lastReload.same
    /\ current_text # <<>>
    /\ killswitch

\* C20: a Shift key-down that comes less than 500 ms after the remembered
\* one while the overlay is hidden gets ShowOverlay to the overlay and clears
\* the remembered press time, so that the next Shift key-down starts a fresh
\* window.
C20_DoubleShiftFiresOnce ==
    (lastHook.res = "handled" /\ lastHook.gesture) =>
        /\ lastHook.shown
        /\ last_shift_time = NoTime

\* C21: the hook callback only hands the event on and returns: the thread
\* the hook runs on is never inside delete_chars or type_text, has run no
\* interpreter and has made no IPC send on behalf of a key event.
C21_HookCallbackNeverBlocks ==
    /\ pc = "idle"
    /\ ~lastHook.gesture
    /\ fired.rule > 0 => fired.exec = "none"

\* C22: at most one synthesis operation is in progress at a time: while the
\* IPC thread types a selected template the hook thread is in no
\* replacement, and the other way round.
C22_OneSynthesisAtATime == ~(pc # "idle" /\ tpl.pc # "idle")

\* the hook is called for a hardware key-down of a character key while the
\* hook thread is idle (every key of TplEvents is one)
CharKeyDown == keysLeft' < keysLeft /\ osQueue = <<>> /\ pc = "idle"

\* C23: after a replacement has failed, with no synthesis in progress, the
\* next KeyDown(Char) is handled: its character is pushed onto the buffer
\* and the buffer is matched against the rules as for any other key.
C23_EngineRunsAfterFailure ==
    /\ [](outcome = "err" => pc = "idle")
    /\ [][(outcome = "err" /\ tpl.pc = "idle" /\ CharKeyDown) =>
             /\ lastHook'.res = "handled"
             /\ lastHook'.pushed
             /\ \E ev \in TplEvents : fired'.buf = PushChar(current_text, ev.vk)
             /\ fired'.rule = find_replacement(config, fired'.buf).rule
             /\ fired'.rule > 0 => pc' = "delete_chars"]_vars

\* the replacement of "tw" failed in all its attempts, no template was
\* typed, and the key typed after it is in the buffer behind the trigger
C23_Witness ==
    /\ tpl = NoTpl
    /\ failures = MAX_RETRIES
    /\ lastHook.res = "handled"
    /\ lastHook.pushed
    /\ Len(current_text) = 3
    /\ SubSeq(current_text, 1, 2) = <<"t", "w">>
    /\ fired.buf = current_text

\* C29: whenever neither the hook thread nor the IPC thread is inside a
\* synthesis call, GENERATING_INPUT is false: send_key clears it when it
\* returns Ok and when it returns the error of a failed SendInput.
C29_GateClearWhenNoSynthesis ==
    (pc = "idle" /\ tpl.pc = "idle") => ~GENERATING_INPUT

\* a replacement that ended with the error of SendInput after it had sent
\* a backspace key-down, which had set the gate
C29_Witness ==
    /\ outcome = "err"
    /\ emitted.bsDown > 0
    /\ pc = "idle"
    /\ tpl.pc = "idle"
    /\ ~GENERATING_INPUT

\* C30: while overlay_visible is true, a key-down of a character key or of
\* Backspace pushes nothing onto the buffer, pops nothing from it and starts
\* no replacement: the buffer is left as the idle reset of any key-down
\* leaves it.
C30_OverlayKeysLeaveBuffer ==
    [][(overlay_visible /\ keysLeft' < keysLeft) =>
          /\ current_text' = IdleReset(current_text, sinceKey)
          /\ ~lastHook'.pushed
          /\ fired' = NoMatch
          /\ pc' = "idle"
          /\ emitted' = emitted]_vars

\* four keys went down: "t" and the two Shift presses that opened the
\* overlay, then a key that was not Shift (no press time is remembered), so
\* a character key or Backspace; the buffer still holds "t"
C30_Witness ==
    /\ overlay_visible
    /\ current_text = <<"t">>
    /\ keysLeft = MaxOverlayKeys - 4
    /\ last_shift_time = NoTime
    /\ lastHook.res = "handled"
    /\ ~lastHook.gesture
    /\ ~lastHook.pushed

\* the calls of the operation that return Ok
OkCalls(outs) == {k \in 1..MAX_RETRIES : outs[k]}

\* the first call that returns Ok
FirstOk(outs) == CHOOSE k \in OkCalls(outs) : \A j \in OkCalls(outs) : k <= j

\* C24: retry_with_backoff calls the operation at most 3 times; it returns
\* the first Ok without a further call; it sleeps 100 ms after the first
\* failure and 200 ms after the second and not after the third; after three
\* failures it returns RetryTimeout with attempts = 3.
C24_RetryWithBackoff ==
    call.fn = "retry_with_backoff" =>
        LET r == call.result
        IN  /\ r.calls <= 3
            /\ IF OkCalls(call.outs) # {}
               THEN /\ r.ok
                    /\ r.calls = FirstOk(call.outs)
                    /\ r.sleeps = SubSeq(<<100, 200>>, 1, r.calls - 1)
               ELSE /\ ~r.ok
                    /\ r.err = "RetryTimeout"
                    /\ r.attempts = 3
                    /\ r.calls = 3
                    /\ r.sleeps = <<100, 200>>

\* the operation fails twice and then succeeds, after both sleeps
C24_Witness ==
    /\ call.fn = "retry_with_backoff"
    /\ call.outs = <<FALSE, FALSE, TRUE, FALSE>>
    /\ call.result.ok
    /\ call.result.sleeps = <<100, 200>>

\* C28: two versions are == exactly when cmp returns Equal.
C28_VersionEqAgreesWithCmp ==
    call.fn = "version_cmp" => (call.eq <=> call.cmp = "Equal")

\* C26: parse(serialize(c)) succeeds and gives back the metadata, the
\* documentation lines and, for every rule, the triggers and the replacement
\* of c (Simple, Multiline and Code alike) with description and category
\* None, and a second round trip changes nothing more.
LossyOf(c) ==
    [c EXCEPT !.rules = [i \in 1..Len(c.rules) |->
                            [c.rules[i] EXCEPT !.description = None, !.category = None]]]

C26_RoundTripKeepsAllButComments ==
    call.fn = "round_trip" =>
        /\ call.once.ok
        /\ call.once = LossyOf(call.c)
        /\ call.twice = call.once

\* C25: for a keyboard monitor, when start() returns Ok is_running() is
\* true and when stop() returns Ok is_running() is false, whatever the hook
\* install and uninstall calls made inside the call return.
C25_StartStopSetRunning ==
    \A who \in Monitors :
        (kbd.last.who = who /\ kbd.last.ok) =>
            /\ kbd.last.op = "start" => is_running(kbd[who])
            /\ kbd.last.op = "stop" => ~is_running(kbd[who])

\* C27: health_check on a keyboard monitor returns Unhealthy when the monitor
\* is not running, Healthy when it is running and no operation has failed,
\* and Degraded after four operations have failed while it is running.
C27_HealthCheckStatus ==
    \A who \in Monitors :
        (kbd.last.who = who /\ kbd.last.op = "health_check") =>
            /\ ~is_running(kbd[who]) => kbd.last.health = "Unhealthy"
            /\ (is_running(kbd[who]) /\ kbd.failed[who] = 0) => kbd.last.health = "Healthy"
            /\ (is_running(kbd[who]) /\ kbd.failedRunning[who] = 4) =>
                  kbd.last.health = "Degraded"

\* C34: when the killswitch suppresses a replacement the engine state is as
\* if no trigger had matched: nothing is popped from the buffer, which still
\* ends with the typed trigger.
C34_KilledMatchLeavesBuffer ==
    (fired.rule > 0 /\ fired.killed) => current_text = fired.buf

\* C38: after a successful replacement the number of characters removed from
\* the tail of the buffer is the number of backspaces synthesized, the
\* character count of the trigger.
C38_RemovedEqualsBackspaces ==
    outcome = "ok" =>
        /\ emitted.bsDown = CharCount(fired.trigger)
        /\ Len(fired.buf) - Len(current_text) = emitted.bsDown

\* C36: ShowOverlay is sent only after two distinct Shift presses: the Shift
\* key-down that fires the gesture comes after a Shift key-up, so Shift is
\* not held when it arrives and the repeated key-downs of one held Shift
\* never fire it.
C36_GestureNeedsShiftRelease ==
    [][(keysLeft' < keysLeft /\ lastHook'.res = "handled" /\ lastHook'.gesture)
          => ~shift_pressed]_vars

\* C35: whenever no key event is pending, shift_pressed, ctrl_pressed,
\* alt_pressed and killswitch equal the physical held state of Shift, Ctrl,
\* Alt and Escape.  The physical state of a key is the direction of its
\* last hardware transition, so once the hook has been called for a hardware
\* transition of one of these keys and nothing else is pending, the flag of
\* the key is true after a key-down and false after a key-up, also when the
\* transition arrived while the gate was set.
C35_FlagsFollowPhysicalKeys ==
    [][(HookDelivery /\ osQueue' = <<>> /\ ~Head(osQueue).synthetic) =>
          LET ev == Head(osQueue) IN
          /\ ev.vk = "VK_SHIFT" => shift_pressed' = (ev.dir = "down")
          /\ ev.vk = "VK_CONTROL" => ctrl_pressed' = (ev.dir = "down")
          /\ ev.vk = "VK_MENU" => alt_pressed' = (ev.dir = "down")
          /\ ev.vk = "VK_ESCAPE" => killswitch' = (ev.dir = "down")]_vars

\* C31: with the overlay hidden, KeyDown(Char('v')) or KeyDown(Char('V'))
\* while Ctrl is held empties the buffer, pushes nothing and attempts no
\* trigger match.
C31_CtrlVClearsBuffer ==
    (lastHook.res = "handled" /\ lastHook.ctrlV) =>
        /\ current_text = <<>>
        /\ ~lastHook.pushed
        /\ fired = NoMatch
        /\ pc = "idle"

C31_Witness ==
    /\ lastHook.res = "handled" /\ lastHook.ctrlV
    /\ ctrl_pressed /\ ~overlay_visible
    /\ freshLen = 0 /\ sinceChar = 0 /\ sinceKey = 0
    /\ keysLeft = MaxModKeys - 3

\* C40: once no reload signal is waiting, no thread is inside update_config
\* and the overlay has taken every ConfigReloaded off its pipe, none of which
\* was lost, the overlay's config is the daemon's active rule set.
C40_OverlayConfigFollowsDaemon ==
    (/\ ReloadsDone
     /\ overlayProc.inbox = <<>>
     /\ overlayProc.applied
     /\ ~overlayProc.lost) => overlayProc.config = config

\* C32: the messages the callback has been given are the lines that parse,
\* in order, of every connection accepted so far up to the line the listener
\* has reached (up to the first failed read on a connection it has left):
\* no line that fails to parse and no error of the callback costs a later
\* line or connection its delivery.
C32_BadLinesAreSkipped ==
    [k \in 1..Len(listener.calls) |-> listener.calls[k].msg] = DueFrom(1)

\* a line that does not parse and a callback error were both followed by a
\* message that reached the callback, the last one on a second connection
C32_Witness ==
    /\ listener.accepted = 2
    /\ listener.conns[1].sent = <<Garbage, "StatusRequest">>
    /\ Len(listener.calls) = 2
    /\ ~listener.calls[1].ok
    /\ listener.calls[2].msg = "StatusRequest"

\* C33: a connection that is open with no line to read does not keep the
\* listener from a connection that waits to be accepted.
C33_IdleConnectionDoesNotBlock ==
    listener.accepted < Len(listener.conns) =>
       ~(/\ listener.pc = "read"
         /\ listener.pos = Len(listener.conns[listener.accepted].sent)
         /\ listener.conns[listener.accepted].open)

\* C37: the step in which the daemon's callback is given HideOverlay leaves
\* the overlay-visible flag false, so that characters are buffered again.
C37_HideOverlayClearsFlag ==
    [][(/\ Len(listener'.calls) > Len(listener.calls)
        /\ listener'.calls[Len(listener'.calls)].msg = "HideOverlay") => ~overlay_visible']_vars

\* C39: what the backspaces of a replacement of the channel-based
\* dispatcher removed from the focused application is the trigger.
C39_BackspacesDeleteTheTrigger ==
    legacy.fired => legacy.deleted = legacy.trigger

C12_Witness ==
    /\ Len(current_text) = MAX_TEXT_LENGTH
    /\ keysLeft < MaxPushKeys - MAX_TEXT_LENGTH
    /\ \E k \in 1..(MAX_TEXT_LENGTH - 1) : current_text[k] = "t"

=============================================================================
